---- MODULE Spec2Model ----
(***************************************************************************)
(* Model of the authentication and phone verification flows of pinion:     *)
(* the GraphQL mutations of src/src/schema.rs (sign_up, login_phone,       *)
(* login_phone_confirm, send_verification_code, verify_number,             *)
(* delete_account), the per-request session lookup of src/src/main.rs and  *)
(* the client error payloads of src/src/error.rs, run by concurrent        *)
(* requests against one Postgres store (READ COMMITTED, row locks held to  *)
(* the end of a transaction, statements on the pool committed one by one). *)
(***************************************************************************)
EXTENDS Integers, Sequences, FiniteSets, TLC

\* ------------------------------------------------------------ bounds
\* rows of pin.verification_codes and of pin.auth_tokens, and the clock, in
\* the specifications of the verification flow
MaxCodes == 2
MaxTokens == 2
MaxClock == 122
\* the same in the specifications of the rate limit
MaxRateCodes == 7
MaxRateClock == 60
MaxRaceClock == 30
\* the clock in the specification of the sessions
MaxSessionClock == 2592001
\* the Enc values kept in the specification of crypto.rs
MaxEnvelopes == 2

\* ------------------------------------------------- program constants
RESEND_SECONDS == 5
WINDOW_SECONDS == 60
WINDOW_MAX == 5
CHALLENGE_PHONE_EXPIRATION_SECONDS == 120
AUTH_EXPIRATION_SECONDS == 2592000

\* SQL NULL / Option::None of a timestamp, an id or a string
NULL == -1

Procs == {1, 2}
Numbers == {1, 2}
SixDigitCodes == {1, 2}

VARIABLES users, phones, codes, tokens, now, req, response, envelopes, call,
          allowed_phone_numbers, sms_calls

vars == <<users, phones, codes, tokens, now, req, response, envelopes, call,
          allowed_phone_numbers, sms_calls>>
db == <<users, phones, codes, tokens>>
\* the Enc values encrypt has returned so far and the last call into crypto.rs
crypto == <<envelopes, call>>
\* CONFIG.allowed_phone_numbers and the number of requests made to the SMS
\* gateway so far
gateway == <<allowed_phone_numbers, sms_calls>>

\* Option<Vec<String>>
None == [some |-> FALSE, list |-> {}]
Some(list) == [some |-> TRUE, list |-> list]

\* ------------------------------------------------------------ errors
E(s) == [variant |-> "E", msg |-> s]
DBNotFound == [variant |-> "DBNotFound", msg |-> ""]
DBUniqueContraintViolation == [variant |-> "DBUniqueContraintViolation", msg |-> ""]
Unauthorized(s) == [variant |-> "Unauthorized", msg |-> s]
Unverified(s) == [variant |-> "Unverified", msg |-> s]
BadRequest(s) == [variant |-> "BadRequest", msg |-> s]
InvalidVerificationCode(s) == [variant |-> "InvalidVerificationCode", msg |-> s]
Reqwest == [variant |-> "Reqwest", msg |-> ""]
DB == [variant |-> "DB", msg |-> ""]

\* #[error("...")]: the Display text of each variant
Display(e) ==
    CASE e.variant = "E" -> "error"
      [] e.variant = "DBNotFound" -> "db error, not found"
      [] e.variant = "DBUniqueContraintViolation" -> "db error, unique constraint violation"
      [] e.variant = "Unauthorized" -> "unauthorized"
      [] e.variant = "Unverified" -> "unverified"
      [] e.variant = "BadRequest" -> "bad request"
      [] e.variant = "InvalidVerificationCode" -> "invalid verification code"
      [] e.variant = "Reqwest" -> "request error"
      [] e.variant = "DB" -> "db error"

\* `?` on an AppError without .extend(): the message alone reaches the client
Plain(e) == [message |-> Display(e), code |-> NULL, key |-> "", error |-> ""]

\* ErrorExtensions::extend
Extend(e) ==
    CASE e.variant = "E" ->
            [message |-> Display(e), code |-> 500, key |-> "UNKNOWN", error |-> e.msg]
      [] e.variant = "DBNotFound" ->
            [message |-> Display(e), code |-> 404, key |-> "UNKNOWN", error |-> ""]
      [] e.variant = "DBUniqueContraintViolation" ->
            [message |-> Display(e), code |-> 500, key |-> "UNIQUE_CONSTRAINT", error |-> ""]
      [] e.variant = "Unverified" ->
            [message |-> Display(e), code |-> 401, key |-> "UNVERIFIED", error |-> e.msg]
      [] e.variant = "Unauthorized" ->
            [message |-> Display(e), code |-> 401, key |-> "UNAUTHORIZED", error |-> e.msg]
      [] e.variant = "BadRequest" ->
            [message |-> Display(e), code |-> 400, key |-> "BAD_REQUEST", error |-> e.msg]
      [] e.variant = "InvalidVerificationCode" ->
            [message |-> Display(e), code |-> 400, key |-> "INVALID_CODE", error |-> e.msg]
      [] e.variant = "Reqwest" ->
            [message |-> Display(e), code |-> 500, key |-> "UNKNOWN", error |-> ""]
      [] e.variant = "DB" ->
            [message |-> Display(e), code |-> 500, key |-> "DATABASE_ERROR", error |-> ""]

\* .extend_with(|_e, ex| ex.set("key", k)) after .extend()
WithKey(payload, k) == [payload EXCEPT !.key = k]

\* the outcome of a request: ok, or the AppError raised and the payload sent
Pending == [ok |-> FALSE, err |-> [variant |-> "", msg |-> ""],
            payload |-> [message |-> "", code |-> NULL, key |-> "", error |-> ""]]
Ok == [Pending EXCEPT !.ok = TRUE]
Failed(e, payload) == [ok |-> FALSE, err |-> e, payload |-> payload]

\* ------------------------------------------------------- crypto model
\* hmac_sign: a keyed hash under the one configured signing key, injective
\* on the clear tokens of the model
hmac_sign(token) == <<"hmac", token>>

\* derive_password_hash: PBKDF2 of the code under the row's salt, injective
\* on (code, salt)
derive_password_hash(pw, salt) == <<"pbkdf2", pw, salt>>

\* hex::encode and hex::decode of a byte string
hex_encode(bytes) == <<"hex", bytes>>
hex_decode(text) == text[2]

\* ----------------------------------------------- crypto.rs, in detail
\* crate::Result of a function of crypto.rs: the value, or AppError::E with
\* the text given to map_err (From<&str>)
Success(v) == [ok |-> TRUE, val |-> v, err |-> ""]
Failure(text) == [ok |-> FALSE, val |-> NULL, err |-> text]

\* the keys, plaintexts and messages of the calls, the outcomes of the random
\* source (RngDown: SystemRandom::fill fails), the bit positions flipped
Keys == {1, 2}
Plaintexts == {1, 2}
Messages == {1, 2, 3}
RngDown == 0
NonceDraws == {1, 2}
SaltDraws == {1}
Bits == {1, 2}
NONCE_LEN == 12
SALT_LEN == 128

\* a byte string: its length, its content as drawn, the bit flipped in it
\* since (0: none)
Bytes(len, id) == [len |-> len, id |-> id, flip |-> 0]
FlipBit(bytes, bit) == [bytes EXCEPT !.flip = bit]

\* rand_bytes(n): n bytes of the system random source, or its error
rand_bytes(n, draw) ==
    IF draw = RngDown THEN Failure("Error getting random bytes")
    ELSE Success(Bytes(n, draw))

new_pw_salt(draw) == rand_bytes(SALT_LEN, draw)
\* variant of the nonce: the same 12 bytes in every call
new_gcm_nonce_constant(draw) == Success(Bytes(NONCE_LEN, 1))

new_gcm_nonce(draw) == rand_bytes(NONCE_LEN, draw)

\* b64_encode / b64_decode (URL-safe, no padding) of a byte string: the text
\* decodes to the bytes it encodes, any other text is an error
b64_encode(bytes) == <<"b64", bytes>>
b64_decode(text) ==
    IF text[1] = "b64" THEN Success(text[2]) ELSE Failure("base64 decode error")

\* str::as_bytes and String::from_utf8
as_bytes(str) == [utf8 |-> TRUE, str |-> str]
from_utf8(bytes) ==
    IF bytes.utf8 THEN Success(bytes.str) ELSE Failure("invalid utf-8 sequence")

\* variant of the seal: the key is stretched from pass under an empty salt
encrypt_bytes_unsalted(bytes, nonce, pass, salt) ==
    IF nonce.len # NONCE_LEN THEN Failure("Encryption nonce not unique")
    ELSE Success([sealed |-> [key |-> derive_password_hash(pass, Bytes(0, 0)),
                              nonce |-> nonce, plain |-> bytes],
                  flip |-> 0])

\* encrypt_bytes: AES-256-GCM seal under the key stretched from pass and
\* salt; the nonce must be 12 bytes
encrypt_bytes(bytes, nonce, pass, salt) ==
    IF nonce.len # NONCE_LEN THEN Failure("Encryption nonce not unique")
    ELSE Success([sealed |-> [key |-> derive_password_hash(pass, salt),
                              nonce |-> nonce, plain |-> bytes],
                  flip |-> 0])

\* variant of the open: the key is stretched from pass alone, whatever the
\* salt that came with the Enc
decrypt_bytes_any_salt(bytes, nonce, pass, salt) ==
    IF nonce.len # NONCE_LEN THEN Failure("Decryption nonce not unique")
    ELSE IF /\ bytes.flip = 0
            /\ bytes.sealed.key[2] = pass
            /\ bytes.sealed.nonce = nonce
         THEN Success(bytes.sealed.plain)
         ELSE Failure("Failed decrypting bytes")

\* decrypt_bytes: AES-256-GCM open; the tag matches only the untouched
\* output of a seal under the same stretched key and nonce
decrypt_bytes(bytes, nonce, pass, salt) ==
    IF nonce.len # NONCE_LEN THEN Failure("Decryption nonce not unique")
    ELSE IF /\ bytes.flip = 0
            /\ bytes.sealed.key = derive_password_hash(pass, salt)
            /\ bytes.sealed.nonce = nonce
         THEN Success(bytes.sealed.plain)
         ELSE Failure("Failed decrypting bytes")

\* encrypt_with_key: a new nonce and a new salt, the sealed bytes, the three
\* of them base64-encoded into an Enc
encrypt_with_key(str, key, nonce_draw, salt_draw) ==
    LET nonce == new_gcm_nonce(nonce_draw)
        salt == new_pw_salt(salt_draw)
    IN  IF ~nonce.ok THEN Failure("error generating nonce")
        ELSE IF ~salt.ok THEN Failure("error generating salt")
        ELSE LET b == encrypt_bytes(as_bytes(str), nonce.val, key, salt.val)
             IN  IF ~b.ok THEN Failure("encryption error")
                 ELSE Success([value |-> b64_encode(b.val),
                               nonce |-> b64_encode(nonce.val),
                               salt |-> b64_encode(salt.val)])

\* decrypt_with_key: decode nonce, salt and value, open, read as UTF-8
decrypt_with_key(enc, key) ==
    LET nonce == b64_decode(enc.nonce)
        salt == b64_decode(enc.salt)
        value == b64_decode(enc.value)
    IN  IF ~nonce.ok THEN Failure("nonce base64 decode error")
        ELSE IF ~salt.ok THEN Failure("salt base64 decode error")
        ELSE IF ~value.ok THEN Failure("value base64 decode error")
        ELSE LET bytes == decrypt_bytes(value.val, nonce.val, key, salt.val)
             IN  IF ~bytes.ok THEN Failure("encryption error")
                 ELSE IF ~from_utf8(bytes.val).ok THEN Failure("error decrypting bytes")
                 ELSE from_utf8(bytes.val)

\* encrypt and decrypt: under CONFIG.encryption_key
ENCRYPTION_KEY == 1
encrypt(str, nonce_draw, salt_draw) == encrypt_with_key(str, ENCRYPTION_KEY, nonce_draw, salt_draw)
decrypt(enc) == decrypt_with_key(enc, ENCRYPTION_KEY)

\* serde_json::to_string of an Enc and serde_json::from_slice into an Enc
to_string(enc) == <<"json", enc>>
from_slice(bytes) ==
    IF bytes[1] = "json" THEN Success(bytes[2]) ELSE Failure("json error")

\* hex::decode as a Result: lower-case and upper-case digits decode alike,
\* any other text is an error
hex_try_decode(text) ==
    IF text[1] \in {"hex", "HEX"} THEN Success(text[2]) ELSE Failure("hex error")

\* ring::hmac::sign: the HMAC-SHA256 tag of the message under the key
hmac_tag(key, str) == [mac |-> <<key, str>>, flip |-> 0]

\* hmac_sign_with_key: the tag in lower-case hex
hmac_sign_with_key(str, key) == hex_encode(hmac_tag(key, str))

\* hmac_verify_with_key: false for a signature that is not hex, otherwise
\* whether the decoded bytes are the tag of the text under the key
hmac_verify_with_key(text, sig, key) ==
    IF ~hex_try_decode(sig).ok THEN FALSE
    ELSE hex_try_decode(sig).val = hmac_tag(key, text)

\* what a caller does to a value before handing it back: nothing, one bit
\* of one field flipped, a field that no longer decodes, a nonce one byte
\* short, hex digits in upper case
NoTamper == [field |-> "none", how |-> "none", bit |-> 0]
EncFields == {"value", "nonce", "salt"}
BitFlips == [field : EncFields, how : {"flip"}, bit : Bits]
Malformations == [field : EncFields, how : {"malformed"}, bit : {0}]
ShortNonce == [field |-> "nonce", how |-> "length", bit |-> 0]
EncTampers == BitFlips \cup Malformations \cup {ShortNonce}

TamperedEnc(enc, t) ==
    IF t.how = "none" THEN enc
    ELSE [enc EXCEPT ![t.field] =
            IF t.how = "flip" THEN b64_encode(FlipBit(@[2], t.bit))
            ELSE IF t.how = "malformed" THEN <<"malformed", @[2]>>
            ELSE b64_encode([@[2] EXCEPT !.len = NONCE_LEN - 1])]

TagTampers ==
    [field : {"tag"}, how : {"flip"}, bit : Bits]
        \cup [field : {"tag"}, how : {"malformed", "upper"}, bit : {0}]

TamperedTag(sig, t) ==
    IF t.how = "none" THEN sig
    ELSE IF t.how = "flip" THEN hex_encode(FlipBit(hex_decode(sig), t.bit))
    ELSE IF t.how = "upper" THEN <<"HEX", sig[2]>>
    ELSE <<"malformed", sig[2]>>

\* the last call into crypto.rs: the function, the text and key its input
\* was made from (s0, key0), the text and key passed (s, key), the Enc
\* passed (its index in envelopes), what was done to the input, the result
NoCall == [op |-> "none", s0 |-> NULL, key0 |-> NULL, s |-> NULL, key |-> NULL,
           enc |-> 0, tamper |-> NoTamper, res |-> Failure("")]

\* ------------------------------------------------------ request state
\* models::User, the projection a request works on (id 0: no user)
NoUser == [id |-> 0, phone_number |-> NULL, phone_verified |-> NULL,
           phone_verification_sent |-> NULL]

Idle == [op |-> "idle", pc |-> "idle", code |-> NULL, user |-> NoUser, latest |-> 0]

\* a request slot is free before its first request and after each response
Free(p) == req[p].pc = "idle"

\* the response this step sends, if it sends one: who asked, for what, as
\* which user, with which code, the code row selected for it, the clear
\* session token returned (login_ctx), the outcome
NoResponse == [proc |-> 0, op |-> "idle", user |-> 0, code |-> NULL, row |-> 0,
               token |-> NULL, cookies |-> <<>>, res |-> Pending]

UserIds == 1..Len(users)
CodeIds == 1..Len(codes)
TokenIds == 1..Len(tokens)

\* the User projection of user id u (the select lists of fetch_user,
\* fetch_user_by_number and the session lookup)
Projection(u) ==
    [id |-> u, phone_number |-> phones[u].number,
     phone_verified |-> phones[u].verified,
     phone_verification_sent |-> phones[u].verification_sent]

\* User::fetch_user_by_number: the users with a live phone of this number
UsersByNumber(n) ==
    {u \in UserIds : phones[u].number = n /\ ~users[u].deleted /\ ~phones[u].deleted}

\* User::fetch_user finds the row
UserLive(u) == ~users[u].deleted /\ ~phones[u].deleted

\* variant of the lookup: without "u.deleted is false"
SessionUsersOfDeleted(auth) ==
    {tokens[t].user_id : t \in {t \in TokenIds :
        /\ tokens[t].hash = hmac_sign(auth)
        /\ ~tokens[t].deleted
        /\ tokens[t].expires > now}}

\* variant of the lookup: a token still resolves in the second it expires
SessionUsersAtExpiry(auth) ==
    {tokens[t].user_id : t \in {t \in TokenIds :
        /\ tokens[t].hash = hmac_sign(auth)
        /\ ~tokens[t].deleted
        /\ tokens[t].expires >= now
        /\ ~users[tokens[t].user_id].deleted}}

\* the session lookup of the graphql_post filter: the users a presented
\* credential resolves to (none: the request is anonymous)
SessionUsers(auth) ==
    {tokens[t].user_id : t \in {t \in TokenIds :
        /\ tokens[t].hash = hmac_sign(auth)
        /\ ~tokens[t].deleted
        /\ tokens[t].expires > now
        /\ ~users[tokens[t].user_id].deleted}}

\* the credentials a client can present: none, or an issued one
NoAuth == NULL
Credentials == {NoAuth} \cup TokenIds

\* ----------------------------------------------------- locks, in-flight
\* the open transaction of q has updated its code row (and holds its lock)
HoldsCode(q) == req[q].pc \in {"v_verify", "v_commit"}

\* the open transaction of q has updated its user's phone (and holds its lock)
HoldsPhone(q) == req[q].pc = "v_commit"

\* a row lock on code row r held by an open transaction other than p's
CodeLocked(r, p) == \E q \in Procs \ {p} : HoldsCode(q) /\ req[q].latest = r

\* a row lock on the phone of user u held by an open transaction other than p's
PhoneLocked(u, p) == \E q \in Procs \ {p} : HoldsPhone(q) /\ req[q].user.id = u

\* requests in flight that will still insert a code row / a token row
SendPcs == {"send_check", "send_insert"}
TokenOps == {"sign_up", "login_phone_confirm"}
CodesToCome == Cardinality({q \in Procs : req[q].pc \in SendPcs})
TokensToCome == Cardinality({q \in Procs : ~Free(q) /\ req[q].op \in TokenOps})
RoomForCode(max) == Len(codes) + CodesToCome < max
RoomForToken == Len(tokens) + TokensToCome < MaxTokens

\* the request goes on
Set(p, r) == req' = [req EXCEPT ![p] = r] /\ response' = NoResponse

\* the response is sent, with its set-cookie headers: the request's
\* transaction, if open, is dropped
RespondWith(p, op, user, token, result, cookies) ==
    /\ req' = [req EXCEPT ![p] = Idle]
    /\ response' = [proc |-> p, op |-> op, user |-> user.id, code |-> req[p].code,
                    row |-> req[p].latest, token |-> token, cookies |-> cookies,
                    res |-> result]

Respond(p, op, user, token, result) == RespondWith(p, op, user, token, result, <<>>)

Done(p, result) == Respond(p, req[p].op, req[p].user, NULL, result)

\* ------------------------------------------------------------ cookies
\* the outcomes of rand_bytes(31) in generate_clear_token
ClearDraws == {RngDown, 1}

\* vec![0; n]
Zeros(n) == [len |-> n, id |-> 0, flip |-> 0]

\* generate_clear_token: "xxxx" and the hex of 31 random bytes, or of 31
\* zero bytes when the random source fails (unwrap_or_else)
generate_clear_token(draw) ==
    <<"xxxx", hex_encode(IF rand_bytes(31, draw).ok THEN rand_bytes(31, draw).val
                         ELSE Zeros(31))>>

\* format_set_auth_cookie: Max-Age is auth_expiration_seconds
format_set_auth_cookie(token) ==
    [name |-> "auth_cookie", value |-> token, max_age |-> AUTH_EXPIRATION_SECONDS]

\* format_set_challenge_phone_cookie: Max-Age is challenge_phone_expiration_seconds
format_set_challenge_phone_cookie(token) ==
    [name |-> "challenge_phone_cookie", value |-> token,
     max_age |-> CHALLENGE_PHONE_EXPIRATION_SECONDS]

\* challenge_phone_ctx: the number encrypted, the Enc serialized, the JSON
\* base64-encoded into the cookie
challenge_phone_ctx(phone_number, nonce_draw, salt_draw) ==
    LET phone_enc == encrypt(phone_number, nonce_draw, salt_draw)
    IN  IF ~phone_enc.ok THEN phone_enc
        ELSE Success(format_set_challenge_phone_cookie(b64_encode(to_string(phone_enc.val))))

\* no challenge_phone_cookie sent with the request
NoCookie == <<>>

\* variant of the filter: the cookie is read as JSON without the base64
\* decoding
ChallengePhoneRaw(challenge_cookie) ==
    IF challenge_cookie = NoCookie THEN NULL
    ELSE IF challenge_cookie[1] = "xxxx" THEN NULL
    ELSE LET enc == from_slice(challenge_cookie)
         IN  IF ~enc.ok THEN NULL
             ELSE IF ~decrypt(enc.val).ok THEN NULL
             ELSE decrypt(enc.val).val

\* the graphql_post filter on the challenge_phone_cookie: the ChallengePhone
\* number put into the request's data, or none
ChallengePhone(challenge_cookie) ==
    IF challenge_cookie = NoCookie THEN NULL
    ELSE IF challenge_cookie[1] = "xxxx" THEN NULL
    ELSE IF ~b64_decode(challenge_cookie).ok THEN NULL
    ELSE LET enc == from_slice(b64_decode(challenge_cookie).val)
         IN  IF ~enc.ok THEN NULL
             ELSE IF ~decrypt(enc.val).ok THEN NULL
             ELSE decrypt(enc.val).val

\* --------------------------------------------------------------- Init
Init ==
    /\ users = <<>>
    /\ phones = <<>>
    /\ codes = <<>>
    /\ tokens = <<>>
    /\ now = 0
    /\ req = [p \in Procs |-> Idle]
    /\ response = NoResponse
    /\ envelopes = <<>>
    /\ call = NoCall
    /\ allowed_phone_numbers = None
    /\ sms_calls = 0

\* the clock advances
Tick(d, max) ==
    /\ now + d <= max
    /\ now' = now + d
    /\ response' = NoResponse
    /\ UNCHANGED <<db, req, crypto, gateway>>

\* ------------------------------------------------------- create_user
UuidHandle(u) == 100 + u

HandleTaken(h) == \E u \in UserIds : users[u].handle = h /\ ~users[u].deleted

\* the select of a live verified phone with this number
VerifiedPhoneExists(n) ==
    \E u \in UserIds : phones[u].number = n /\ ~phones[u].deleted /\ phones[u].verified # NULL

\* create_user's error, if any (the transaction is then dropped: rolled back)
CreateUserError(h, n) ==
    IF HandleTaken(h)
    THEN WithKey(Extend(BadRequest("bad request")), "UNAVAILABLE_HANDLE")
    ELSE IF VerifiedPhoneExists(n)
    THEN WithKey(Extend(BadRequest("bad request")), "UNAVAILABLE_PHONE")
    ELSE Pending.payload

\* variant of create_user: the phone is taken as verified when it is inserted
InsertUserVerified(h, n) ==
    /\ users' = Append(users, [handle |-> h, deleted |-> FALSE])
    /\ phones' = Append(phones, [number |-> n, verified |-> now,
                                 verification_sent |-> NULL,
                                 verification_attempts |-> 0, deleted |-> FALSE])

\* the two inserts of create_user, committed
InsertUser(h, n) ==
    /\ users' = Append(users, [handle |-> h, deleted |-> FALSE])
    /\ phones' = Append(phones, [number |-> n, verified |-> NULL,
                                 verification_sent |-> NULL,
                                 verification_attempts |-> 0, deleted |-> FALSE])

NewUser(n) == [id |-> Len(users) + 1, phone_number |-> n, phone_verified |-> NULL,
               phone_verification_sent |-> NULL]

\* MutationRoot::sign_up up to the commit of its transaction
SignUp(p, h, n) ==
    /\ Free(p)
    /\ IF CreateUserError(h, n) # Pending.payload
       THEN /\ Respond(p, "sign_up", NoUser, NULL,
                         Failed(BadRequest("bad request"), CreateUserError(h, n)))
            /\ UNCHANGED <<db, now, crypto, gateway>>
       ELSE /\ InsertUser(h, n)
            /\ Set(p, [Idle EXCEPT !.op = "sign_up", !.pc = "send_check",
                          !.user = NewUser(n)])
            /\ UNCHANGED <<codes, tokens, now, crypto, gateway>>

\* MutationRoot::login_phone up to the commit of its transaction
LoginPhone(p, n) ==
    /\ Free(p)
    /\ IF UsersByNumber(n) # {}
       THEN /\ \E u \in UsersByNumber(n) :
                 Set(p, [Idle EXCEPT !.op = "login_phone", !.pc = "send_check",
                            !.user = Projection(u)])
            /\ UNCHANGED <<db, now, crypto, gateway>>
       ELSE IF CreateUserError(UuidHandle(Len(users) + 1), n) # Pending.payload
       THEN /\ Respond(p, "login_phone", NoUser, NULL,
                         Failed(BadRequest("bad request"),
                                CreateUserError(UuidHandle(Len(users) + 1), n)))
            /\ UNCHANGED <<db, now, crypto, gateway>>
       ELSE /\ InsertUser(UuidHandle(Len(users) + 1), n)
            /\ Set(p, [Idle EXCEPT !.op = "login_phone", !.pc = "send_check",
                          !.user = NewUser(n)])
            /\ UNCHANGED <<codes, tokens, now, crypto, gateway>>

\* ------------------------------------------- send_verification_code
\* select count(*) ... where user_id = $1 and created > now() - interval '60 seconds'
last_minute_count(u) ==
    Cardinality({r \in CodeIds : codes[r].user_id = u /\ codes[r].created > now - WINDOW_SECONDS})

\* variants of the rate limit: without the resend interval; tripping at
\* WINDOW_MAX rows instead of above it
RateLimitedByCount(user) ==
    /\ user.phone_verification_sent # NULL
    /\ last_minute_count(user.id) > WINDOW_MAX

RateLimitedAtMax(user) ==
    /\ user.phone_verification_sent # NULL
    /\ \/ user.phone_verification_sent > now - RESEND_SECONDS
       \/ last_minute_count(user.id) >= WINDOW_MAX

\* the rate limit of send_verification_code, on the request's User projection
RateLimited(user) ==
    /\ user.phone_verification_sent # NULL
    /\ \/ user.phone_verification_sent > now - RESEND_SECONDS
       \/ last_minute_count(user.id) > WINDOW_MAX

TooMany == BadRequest("too many authorization attempts")

\* variant of the check: a rejected request counts as an attempt
SendCheckCounting(p) ==
    /\ req[p].pc = "send_check"
    /\ IF RateLimited(req[p].user)
       THEN /\ Done(p, Failed(TooMany, Extend(TooMany)))
            /\ phones' = [phones EXCEPT ![req[p].user.id].verification_attempts = @ + 1]
       ELSE /\ Set(p, [req[p] EXCEPT !.pc = "send_insert"])
            /\ phones' = phones
    /\ UNCHANGED <<users, codes, tokens, now, crypto, gateway>>

\* the count query and the rate-limit check
SendCheck(p) ==
    /\ req[p].pc = "send_check"
    /\ IF RateLimited(req[p].user)
       THEN Done(p, Failed(TooMany, Extend(TooMany)))
       ELSE Set(p, [req[p] EXCEPT !.pc = "send_insert"])
    /\ UNCHANGED <<db, now, crypto, gateway>>

\* a new row of pin.verification_codes: a fresh salt, the hash of the code
NewCode(u, c) ==
    [user_id |-> u, salt |-> hex_encode(Len(codes) + 1),
     hash |-> hex_encode(derive_password_hash(c, Len(codes) + 1)),
     created |-> now, deleted |-> FALSE]

\* variant of the insert: the new code supersedes the earlier codes of the
\* user, which are soft-deleted
SendInsertSuperseding(p, c) ==
    /\ req[p].pc = "send_insert"
    /\ codes' = Append([r \in CodeIds |->
                           IF codes[r].user_id = req[p].user.id
                           THEN [codes[r] EXCEPT !.deleted = TRUE] ELSE codes[r]],
                       NewCode(req[p].user.id, c))
    /\ Set(p, [req[p] EXCEPT !.pc = "send_update"])
    /\ UNCHANGED <<users, phones, tokens, now, crypto, gateway>>

\* the code is drawn and its row inserted (on the pool: committed at once)
SendInsert(p, c) ==
    /\ req[p].pc = "send_insert"
    /\ codes' = Append(codes, NewCode(req[p].user.id, c))
    /\ Set(p, [req[p] EXCEPT !.pc = "send_update"])
    /\ UNCHANGED <<users, phones, tokens, now, crypto, gateway>>

\* variant of login_phone: the code sent, the session is opened at once
AfterSendLoggingIn(p, delivered) ==
    IF ~delivered
    THEN Done(p, Failed(Reqwest, Extend(Reqwest)))
    ELSE IF req[p].op \in {"sign_up", "login_phone"}
    THEN Set(p, [req[p] EXCEPT !.pc = "login_ctx"])
    ELSE Done(p, Ok)

\* what follows send_verification_code in each caller, the SMS gateway having
\* answered (delivered) or failed
AfterSend(p, delivered) ==
    IF ~delivered
    THEN Done(p, Failed(Reqwest, Extend(Reqwest)))
    ELSE IF req[p].op = "sign_up"
    THEN Set(p, [req[p] EXCEPT !.pc = "login_ctx"])
    ELSE IF req[p].op = "login_phone"
    THEN \E nd \in NonceDraws, sd \in SaltDraws :
           RespondWith(p, req[p].op, req[p].user, NULL, Ok,
                       <<challenge_phone_ctx(req[p].user.phone_number, nd, sd).val>>)
    ELSE Done(p, Ok)

\* variant of the gate: every number is sent its code
SmsGateOpen(number) == TRUE

\* allowed_phone_numbers.is_none() || allowed_phone_numbers.contains(number)
SmsGate(number) ==
    ~allowed_phone_numbers.some \/ number \in allowed_phone_numbers.list

\* the request to the SMS gateway, made if the number passes the allow-list,
\* and what follows it
Request(p, delivered) ==
    /\ sms_calls' = sms_calls + (IF SmsGate(req[p].user.phone_number) THEN 1 ELSE 0)
    /\ AfterSend(p, ~SmsGate(req[p].user.phone_number) \/ delivered)
    /\ UNCHANGED allowed_phone_numbers

\* variant of the issue: a failed SMS request takes the new row back and
\* leaves the phone as it was
SendUpdateRollingBack(p, delivered) ==
    /\ req[p].pc = "send_update"
    /\ ~PhoneLocked(req[p].user.id, p)
    /\ IF delivered
       THEN /\ phones' = [phones EXCEPT ![req[p].user.id] =
                            [@ EXCEPT !.verification_sent = now,
                                      !.verification_attempts = @ + 1]]
            /\ codes' = codes
       ELSE /\ phones' = phones
            /\ codes' = SubSeq(codes, 1, Len(codes) - 1)
    /\ Request(p, delivered)
    /\ UNCHANGED <<users, tokens, now, crypto>>

\* variant of the phone update: a new code starts the verification over,
\* verified is set to null
SendUpdateUnverifying(p, delivered) ==
    /\ req[p].pc = "send_update"
    /\ ~PhoneLocked(req[p].user.id, p)
    /\ phones' = [phones EXCEPT ![req[p].user.id] =
                     [@ EXCEPT !.verification_sent = now,
                               !.verification_attempts = @ + 1,
                               !.verified = NULL]]
    /\ Request(p, delivered)
    /\ UNCHANGED <<users, codes, tokens, now, crypto>>

\* update pin.phones set verification_sent = now(), verification_attempts + 1,
\* then the request to the SMS gateway
SendUpdate(p, delivered) ==
    /\ req[p].pc = "send_update"
    /\ ~PhoneLocked(req[p].user.id, p)
    /\ phones' = [phones EXCEPT ![req[p].user.id] =
                     [@ EXCEPT !.verification_sent = now,
                               !.verification_attempts = @ + 1]]
    /\ Request(p, delivered)
    /\ UNCHANGED <<users, codes, tokens, now, crypto>>

\* the update of pin.phones fails in the store (the row inserted before it
\* was committed by its own statement): the error is returned
SendUpdateDbFails(p) ==
    /\ req[p].pc = "send_update"
    /\ Done(p, Failed(DB, Extend(DB)))
    /\ UNCHANGED <<db, now, crypto, gateway>>

\* login_phone, the code sent, the random source failing in
\* challenge_phone_ctx: encrypt returns its error, no cookie is set
SendUpdateNoCookie(p) ==
    /\ req[p].pc = "send_update"
    /\ req[p].op = "login_phone"
    /\ ~PhoneLocked(req[p].user.id, p)
    /\ phones' = [phones EXCEPT ![req[p].user.id] =
                     [@ EXCEPT !.verification_sent = now,
                               !.verification_attempts = @ + 1]]
    /\ \E sd \in SaltDraws :
         LET set_cookie == challenge_phone_ctx(req[p].user.phone_number, RngDown, sd)
         IN  Done(p, Failed(E(set_cookie.err), Extend(E(set_cookie.err))))
    /\ sms_calls' = sms_calls + (IF SmsGate(req[p].user.phone_number) THEN 1 ELSE 0)
    /\ UNCHANGED <<users, codes, tokens, now, crypto, allowed_phone_numbers>>

\* ---------------------------------------------------------- login_ctx
\* variant of the row: the clear token itself is stored
NewTokenInClear(u) ==
    [user_id |-> u, hash |-> <<"clear", Len(tokens) + 1>>,
     expires |-> now + AUTH_EXPIRATION_SECONDS, deleted |-> FALSE]

NewToken(u) ==
    [user_id |-> u, hash |-> hmac_sign(Len(tokens) + 1),
     expires |-> now + AUTH_EXPIRATION_SECONDS, deleted |-> FALSE]

\* variant of login_ctx: one session per user, the earlier token rows of the
\* user are soft-deleted
LoginCtxSingleSession(p) ==
    /\ req[p].pc = "login_ctx"
    /\ tokens' = Append([t \in TokenIds |->
                            IF tokens[t].user_id = req[p].user.id
                            THEN [tokens[t] EXCEPT !.deleted = TRUE] ELSE tokens[t]],
                        NewToken(req[p].user.id))
    /\ \E bytes \in ClearDraws :
         RespondWith(p, req[p].op, req[p].user, Len(tokens) + 1, Ok,
                     <<format_set_auth_cookie(Len(tokens) + 1),
                       format_set_challenge_phone_cookie(generate_clear_token(bytes))>>)
    /\ UNCHANGED <<users, phones, codes, now, crypto, gateway>>

\* a fresh clear token, its hash stored, the token returned in the auth
\* cookie, the challenge cookie overwritten with a cleared token
LoginCtx(p) ==
    /\ req[p].pc = "login_ctx"
    /\ tokens' = Append(tokens, NewToken(req[p].user.id))
    /\ \E bytes \in ClearDraws :
         RespondWith(p, req[p].op, req[p].user, Len(tokens) + 1, Ok,
                     <<format_set_auth_cookie(Len(tokens) + 1),
                       format_set_challenge_phone_cookie(generate_clear_token(bytes))>>)
    /\ UNCHANGED <<users, phones, codes, now, crypto, gateway>>

\* login_ctx, the random source failing: rand_bytes(32)? returns its error
\* before the row is inserted
LoginCtxRngDown(p) ==
    /\ req[p].pc = "login_ctx"
    /\ LET token == rand_bytes(32, RngDown)
       IN  Done(p, Failed(E(token.err), Extend(E(token.err))))
    /\ UNCHANGED <<db, now, crypto, gateway>>

\* ------------------------------------------------------------- guards
\* LoginNeedsVerificationGuard, LoginGuard: the error, or no error
NoError == [variant |-> "", msg |-> ""]

LoginNeedsVerificationGuard(user) ==
    IF user.id = 0 THEN Unauthorized("Unauthorized") ELSE NoError

\* variant of LoginGuard without the check of the verified timestamp
LoginGuardAnyPhone(user) ==
    IF user.id = 0 THEN Unauthorized("Unauthorized") ELSE NoError

LoginGuard(user) ==
    IF user.id = 0 THEN Unauthorized("Unauthorized")
    ELSE IF user.phone_verified = NULL THEN Unverified("Unverified")
    ELSE NoError

\* the users the request may carry for a presented credential
ContextUsers(auth) ==
    IF SessionUsers(auth) = {} THEN {NoUser} ELSE {Projection(u) : u \in SessionUsers(auth)}

\* MutationRoot::send_verification_code up to send_verification_code
SendVerificationCode(p, auth) ==
    /\ Free(p)
    /\ \E user \in ContextUsers(auth) :
         IF LoginNeedsVerificationGuard(user) # NoError
         THEN Respond(p, "send_verification_code", user, NULL,
                         Failed(LoginNeedsVerificationGuard(user),
                                        Extend(LoginNeedsVerificationGuard(user))))
         ELSE Set(p, [Idle EXCEPT !.op = "send_verification_code", !.pc = "send_check",
                         !.user = user])
    /\ UNCHANGED <<db, now, crypto, gateway>>

\* MutationRoot::verify_number up to _verify_code_for_user
VerifyNumber(p, auth, code) ==
    /\ Free(p)
    /\ \E user \in ContextUsers(auth) :
         IF LoginNeedsVerificationGuard(user) # NoError
         THEN Respond(p, "verify_number", user, NULL,
                         Failed(LoginNeedsVerificationGuard(user),
                                        Extend(LoginNeedsVerificationGuard(user))))
         ELSE Set(p, [Idle EXCEPT !.op = "verify_number", !.pc = "v_select",
                         !.user = user, !.code = code])
    /\ UNCHANGED <<db, now, crypto, gateway>>

\* MutationRoot::delete_account up to _verify_code_for_user
DeleteAccount(p, auth, code) ==
    /\ Free(p)
    /\ \E user \in ContextUsers(auth) :
         IF LoginGuard(user) # NoError
         THEN Respond(p, "delete_account", user, NULL,
                         Failed(LoginGuard(user), Extend(LoginGuard(user))))
         ELSE Set(p, [Idle EXCEPT !.op = "delete_account", !.pc = "v_select",
                         !.user = user, !.code = code])
    /\ UNCHANGED <<db, now, crypto, gateway>>

\* variant of logout: the token rows of the presented credential are
\* soft-deleted
LogoutRevoking(p, auth) ==
    /\ Free(p)
    /\ \E user \in ContextUsers(auth), bytes \in ClearDraws :
         RespondWith(p, "logout", user, NULL, Ok,
                     <<format_set_auth_cookie(generate_clear_token(bytes))>>)
    /\ tokens' = [t \in TokenIds |->
                    IF tokens[t].hash = hmac_sign(auth)
                    THEN [tokens[t] EXCEPT !.deleted = TRUE] ELSE tokens[t]]
    /\ UNCHANGED <<users, phones, codes, now, crypto, gateway>>

\* MutationRoot::logout (no guard): the auth cookie is overwritten with a
\* cleared token; no statement is run
Logout(p, auth) ==
    /\ Free(p)
    /\ \E user \in ContextUsers(auth), bytes \in ClearDraws :
         RespondWith(p, "logout", user, NULL, Ok,
                     <<format_set_auth_cookie(generate_clear_token(bytes))>>)
    /\ UNCHANGED <<db, now, crypto, gateway>>

MissingPhone == E("no phone number provided or found while verifying code")
InvalidPhone == InvalidVerificationCode("invalid phone number")

\* variant of the choice: the number of the challenge cookie comes first
LoginPhoneConfirmCookieFirst(p, phone_number, challenge, code) ==
    /\ Free(p)
    /\ LET number == IF challenge # NULL THEN challenge ELSE phone_number
       IN  IF number = NULL
           THEN Respond(p, "login_phone_confirm", NoUser, NULL,
                         Failed(MissingPhone,
                                    WithKey(Extend(MissingPhone), "MISSING_PHONE_NUMBER")))
           ELSE IF UsersByNumber(number) = {}
           THEN Respond(p, "login_phone_confirm", NoUser, NULL,
                         Failed(InvalidPhone, Extend(InvalidPhone)))
           ELSE \E u \in UsersByNumber(number) :
                  Set(p, [Idle EXCEPT !.op = "login_phone_confirm", !.pc = "v_select",
                             !.user = Projection(u), !.code = code])
    /\ UNCHANGED <<db, now, crypto, gateway>>

\* MutationRoot::login_phone_confirm up to _verify_code_for_user: the number
\* given, else the challenge cookie's; the user of that number
LoginPhoneConfirm(p, phone_number, challenge, code) ==
    /\ Free(p)
    /\ LET number == IF phone_number # NULL THEN phone_number ELSE challenge
       IN  IF number = NULL
           THEN Respond(p, "login_phone_confirm", NoUser, NULL,
                         Failed(MissingPhone,
                                    WithKey(Extend(MissingPhone), "MISSING_PHONE_NUMBER")))
           ELSE IF UsersByNumber(number) = {}
           THEN Respond(p, "login_phone_confirm", NoUser, NULL,
                         Failed(InvalidPhone, Extend(InvalidPhone)))
           ELSE \E u \in UsersByNumber(number) :
                  Set(p, [Idle EXCEPT !.op = "login_phone_confirm", !.pc = "v_select",
                             !.user = Projection(u), !.code = code])
    /\ UNCHANGED <<db, now, crypto, gateway>>

\* variant of the filter: a cookie that does not decode fails the request
LoginPhoneConfirmCookieStrict(p, phone_number, challenge_cookie, code) ==
    IF challenge_cookie # NoCookie /\ ChallengePhone(challenge_cookie) = NULL
    THEN /\ Free(p)
         /\ Respond(p, "login_phone_confirm", NoUser, NULL,
                    Failed(BadRequest("bad request"), Extend(BadRequest("bad request"))))
         /\ UNCHANGED <<db, now, crypto, gateway>>
    ELSE LoginPhoneConfirm(p, phone_number, ChallengePhone(challenge_cookie), code)

\* login_phone_confirm behind the graphql_post filter: the request comes with
\* a challenge_phone_cookie, which the filter decodes first
LoginPhoneConfirmCookie(p, phone_number, challenge_cookie, code) ==
    LoginPhoneConfirm(p, phone_number, ChallengePhone(challenge_cookie), code)

\* ------------------------------------------- _verify_code_for_user
InvalidCode == InvalidVerificationCode("invalid code")

\* how the caller turns an AppError of _verify_code_for_user into a payload:
\* login_phone_confirm extends it, verify_number and delete_account do not
VerifyPayload(op, e) == IF op = "login_phone_confirm" THEN Extend(e) ELSE Plain(e)

VerifyFailed(p, e) == Done(p, Failed(e, VerifyPayload(req[p].op, e)))

\* variant of the select: without "deleted is false"
AllCodes(u) == {r \in CodeIds : codes[r].user_id = u}

\* variant of the select: without "user_id = $1"
LiveCodesOfAnyUser(u) == {r \in CodeIds : ~codes[r].deleted}

\* where user_id = $1 and deleted is false
LiveCodes(u) == {r \in CodeIds : codes[r].user_id = u /\ ~codes[r].deleted}

\* order by created desc limit 1: a row of the greatest created among rows
LatestOf(rows) == {r \in rows : \A o \in rows : codes[o].created <= codes[r].created}

\* variant of the expiry check: no expiry
NeverExpired(r) == FALSE

\* latest_code.created < Utc::now() - challenge_phone_expiration_seconds
Expired(r) == codes[r].created < now - CHALLENGE_PHONE_EXPIRATION_SECONDS

\* variant of the comparison: every code matches
AnyCodeMatches(r, code) == TRUE

\* verify_slices_are_equal(saved_hash, this_hash)
HashMatches(r, code) ==
    hex_decode(codes[r].hash) = derive_password_hash(code, hex_decode(codes[r].salt))

\* variant of the checks: a code row that fails a check is soft-deleted
VSelectBurning(p) ==
    /\ req[p].pc = "v_select"
    /\ IF LiveCodes(req[p].user.id) = {}
       THEN VerifyFailed(p, InvalidCode) /\ codes' = codes
       ELSE \E r \in LatestOf(LiveCodes(req[p].user.id)) :
              IF Expired(r) \/ ~HashMatches(r, req[p].code)
              THEN /\ VerifyFailed(p, InvalidCode)
                   /\ codes' = [codes EXCEPT ![r].deleted = TRUE]
              ELSE /\ Set(p, [req[p] EXCEPT !.pc = "v_delcode", !.latest = r, !.code = NULL])
                   /\ codes' = codes
    /\ UNCHANGED <<users, phones, tokens, now, crypto, gateway>>

\* the select of the latest code and the three checks on it
VSelect(p) ==
    /\ req[p].pc = "v_select"
    /\ IF LiveCodes(req[p].user.id) = {}
       THEN VerifyFailed(p, InvalidCode)
       ELSE \E r \in LatestOf(LiveCodes(req[p].user.id)) :
              IF Expired(r) THEN VerifyFailed(p, InvalidCode)
              ELSE IF ~HashMatches(r, req[p].code) THEN VerifyFailed(p, InvalidCode)
              ELSE Set(p, [req[p] EXCEPT !.pc = "v_delcode", !.latest = r, !.code = NULL])
    /\ UNCHANGED <<db, now, crypto, gateway>>

\* variant of the consuming update: run on the pool, committed at once
VDelCodeOnPool(p) ==
    /\ req[p].pc = "v_delcode"
    /\ ~CodeLocked(req[p].latest, p)
    /\ codes' = [codes EXCEPT ![req[p].latest].deleted = TRUE]
    /\ Set(p, [req[p] EXCEPT !.pc = "v_verify"])
    /\ UNCHANGED <<users, phones, tokens, now, crypto, gateway>>

\* update pin.verification_codes set deleted = true where id = $1, in the
\* transaction: it waits for the row lock and is visible at the commit
VDelCode(p) ==
    /\ req[p].pc = "v_delcode"
    /\ ~CodeLocked(req[p].latest, p)
    /\ Set(p, [req[p] EXCEPT !.pc = "v_verify"])
    /\ UNCHANGED <<db, now, crypto, gateway>>

\* variant of the schema: no unique index on verified numbers
NoUniqueIndex(u) == FALSE

\* the unique index on the numbers of live verified phones: a committed
\* other phone with the number of u's phone
UniqueConflict(u) ==
    /\ ~phones[u].deleted
    /\ \E v \in UserIds \ {u} :
         /\ phones[v].number = phones[u].number
         /\ ~phones[v].deleted
         /\ phones[v].verified # NULL

\* the same entry written by a transaction still open: the update waits for it
UniqueWait(u, p) ==
    /\ ~phones[u].deleted
    /\ \E q \in Procs \ {p} :
         /\ HoldsPhone(q)
         /\ req[q].user.id # u
         /\ phones[req[q].user.id].number = phones[u].number
         /\ ~phones[req[q].user.id].deleted

\* update pin.phones set verified = now() where user_id = $1, in the transaction
VVerify(p) ==
    /\ req[p].pc = "v_verify"
    /\ ~PhoneLocked(req[p].user.id, p)
    /\ ~UniqueWait(req[p].user.id, p)
    /\ IF UniqueConflict(req[p].user.id)
       THEN VerifyFailed(p, DBUniqueContraintViolation)
       ELSE Set(p, [req[p] EXCEPT !.pc = "v_commit"])
    /\ UNCHANGED <<db, now, crypto, gateway>>

\* what follows the commit in each caller
AfterVerify(op) == IF op = "delete_account" THEN "d_delete" ELSE "login_ctx"

\* User::fetch_user, then the caller's commit: both writes become visible
VCommit(p) ==
    /\ req[p].pc = "v_commit"
    /\ IF ~UserLive(req[p].user.id)
       THEN /\ VerifyFailed(p, DBNotFound)
            /\ UNCHANGED <<db, now, crypto, gateway>>
       ELSE /\ codes' = [codes EXCEPT ![req[p].latest].deleted = TRUE]
            /\ phones' = [phones EXCEPT ![req[p].user.id].verified = now]
            /\ IF req[p].op = "verify_number"
               THEN Done(p, Ok)
               ELSE Set(p, [req[p] EXCEPT !.pc = AfterVerify(req[p].op),
                                          !.user = [req[p].user EXCEPT !.phone_verified = now]])
            /\ UNCHANGED <<users, tokens, now, crypto, gateway>>

\* the second transaction of delete_account, then logout
DDelete(p) ==
    /\ req[p].pc = "d_delete"
    /\ ~PhoneLocked(req[p].user.id, p)
    /\ phones' = [phones EXCEPT ![req[p].user.id].deleted = TRUE]
    /\ users' = [users EXCEPT ![req[p].user.id].deleted = TRUE]
    /\ \E bytes \in ClearDraws :
         RespondWith(p, req[p].op, req[p].user, NULL, Ok,
                     <<format_set_auth_cookie(generate_clear_token(bytes))>>)
    /\ UNCHANGED <<codes, tokens, now, crypto, gateway>>

\* ------------------------------------------------------ specification
\* the requests a client can send on a free slot
Requests(p, numbers, handles, guesses, maxCodes) ==
    \/ /\ RoomForCode(maxCodes) /\ RoomForToken
       /\ \E h \in handles, n \in numbers : SignUp(p, h, n)
    \/ /\ RoomForCode(maxCodes)
       /\ \E n \in numbers : LoginPhone(p, n)
    \/ /\ RoomForCode(maxCodes)
       /\ \E a \in Credentials : SendVerificationCode(p, a)
    \/ \E a \in Credentials, c \in guesses : VerifyNumber(p, a, c)
    \/ \E a \in Credentials, c \in guesses : DeleteAccount(p, a, c)
    \/ /\ RoomForToken
       /\ \E n \in Numbers \cup {NULL}, c \in guesses :
            \/ LoginPhoneConfirm(p, n, NULL, c)
            \/ n # NULL /\ LoginPhoneConfirm(p, NULL, n, c)

\* the steps of send_verification_code in flight
SendSteps(p, draws) ==
    \/ SendCheck(p)
    \/ \E c \in draws : SendInsert(p, c)
    \/ \E delivered \in BOOLEAN : SendUpdate(p, delivered)

\* the steps of the requests in flight
Steps(p, draws) ==
    \/ SendSteps(p, draws)
    \/ LoginCtx(p)
    \/ VSelect(p)
    \/ VDelCode(p)
    \/ VVerify(p)
    \/ VCommit(p)
    \/ DDelete(p)

\* a request is taken by the first free slot
FirstFree(p) == Free(p) /\ \A q \in Procs : q < p => ~Free(q)

\* Spec: concurrent requests on two slots, accounts on one phone number, one
\* code drawn, no time passing
Next ==
    \E p \in Procs :
        \/ FirstFree(p) /\ Requests(p, {1}, {1}, SixDigitCodes, MaxCodes)
        \/ Steps(p, {1})

Spec == Init /\ [][Next]_vars

\* SpecTime: one request at a time, the clock advancing
TimeSteps == {59, 60, 61}

NextTime ==
    \/ RoomForCode(MaxCodes) /\ LoginPhone(1, 1)
    \/ /\ RoomForToken
       /\ \E n \in Numbers \cup {NULL}, c \in SixDigitCodes : LoginPhoneConfirm(1, n, NULL, c)
    \/ /\ RoomForCode(MaxCodes)
       /\ \E a \in Credentials : SendVerificationCode(1, a)
    \/ \E a \in Credentials, c \in SixDigitCodes : VerifyNumber(1, a, c)
    \/ SendSteps(1, SixDigitCodes)
    \/ VSelect(1)
    \/ VDelCode(1)
    \/ VVerify(1)
    \/ VCommit(1)
    \/ LoginCtx(1)
    \/ \E d \in TimeSteps : Tick(d, MaxClock)

SpecTime == Init /\ [][NextTime]_vars

\* SpecRate: login_phone on one number, one request at a time, the clock
\* advancing by the resend interval
NextRate ==
    \/ RoomForCode(MaxRateCodes) /\ LoginPhone(1, 1)
    \/ SendSteps(1, {1})
    \/ Tick(RESEND_SECONDS, MaxRateClock)

SpecRate == Init /\ [][NextRate]_vars

\* SpecRace: the same, requests on two slots
NextRace ==
    \/ \E p \in Procs :
          \/ FirstFree(p) /\ RoomForCode(MaxRateCodes) /\ LoginPhone(p, 1)
          \/ SendSteps(p, {1})
    \/ Tick(RESEND_SECONDS, MaxRaceClock)

SpecRace == Init /\ [][NextRace]_vars

\* SpecSession: one request at a time, every mutation and logout, the clock
\* advancing around the lifetime of a session token
SessionSteps ==
    {AUTH_EXPIRATION_SECONDS - 1, AUTH_EXPIRATION_SECONDS, AUTH_EXPIRATION_SECONDS + 1}

NextSession ==
    \/ Requests(1, {1}, {1}, {1}, MaxCodes)
    \/ \E a \in Credentials : Logout(1, a)
    \/ Steps(1, {1})
    \/ \E d \in SessionSteps : Tick(d, MaxSessionClock)

SpecSession == Init /\ [][NextSession]_vars

\* SpecOutage: login by phone, one request at a time, the SMS gateway
\* failing every request
NextOutage ==
    \/ RoomForCode(MaxCodes) /\ LoginPhone(1, 1)
    \/ RoomForCode(MaxCodes) /\ SignUp(1, 1, 2)
    \/ /\ RoomForCode(MaxCodes)
       /\ \E a \in Credentials : SendVerificationCode(1, a)
    \/ /\ RoomForToken
       /\ \E n \in Numbers, c \in SixDigitCodes : LoginPhoneConfirm(1, n, NULL, c)
    \/ SendCheck(1)
    \/ \E c \in SixDigitCodes : SendInsert(1, c)
    \/ SendUpdate(1, FALSE)
    \/ VSelect(1)
    \/ VDelCode(1)
    \/ VVerify(1)
    \/ VCommit(1)
    \/ LoginCtx(1)
    \/ \E d \in TimeSteps : Tick(d, MaxClock)

SpecOutage == Init /\ [][NextOutage]_vars

\* SpecFault: sign-up and login by phone, one request at a time, the store
\* failing the update of the phone or the random source failing
NextFault ==
    \/ RoomForCode(MaxCodes) /\ LoginPhone(1, 1)
    \/ RoomForCode(MaxCodes) /\ SignUp(1, 1, 1)
    \/ /\ RoomForToken
       /\ \E c \in SixDigitCodes : LoginPhoneConfirm(1, 1, NULL, c)
    \/ SendCheck(1)
    \/ \E c \in SixDigitCodes : SendInsert(1, c)
    \/ SendUpdate(1, TRUE)
    \/ SendUpdateDbFails(1)
    \/ SendUpdateNoCookie(1)
    \/ VSelect(1)
    \/ VDelCode(1)
    \/ VVerify(1)
    \/ VCommit(1)
    \/ LoginCtx(1)
    \/ LoginCtxRngDown(1)
    \/ Tick(61, MaxClock)

SpecFault == Init /\ [][NextFault]_vars

\* SpecAllow: the server started with ALLOWED_PHONE_NUMBERS unset, or set to
\* a list with or without the numbers in use; codes requested by sign_up,
\* login_phone and send_verification_code, one request at a time
AllowLists == {None, Some({1}), Some({3})}

InitAllow ==
    /\ users = <<>>
    /\ phones = <<>>
    /\ codes = <<>>
    /\ tokens = <<>>
    /\ now = 0
    /\ req = [p \in Procs |-> Idle]
    /\ response = NoResponse
    /\ envelopes = <<>>
    /\ call = NoCall
    /\ allowed_phone_numbers \in AllowLists
    /\ sms_calls = 0

NextAllow ==
    \/ RoomForCode(MaxCodes) /\ \E n \in Numbers : LoginPhone(1, n)
    \/ RoomForCode(MaxCodes) /\ RoomForToken /\ \E n \in Numbers : SignUp(1, n, n)
    \/ /\ RoomForCode(MaxCodes)
       /\ \E a \in Credentials : SendVerificationCode(1, a)
    \/ SendSteps(1, {1})
    \/ LoginCtx(1)
    \/ Tick(61, MaxClock)

SpecAllow == InitAllow /\ [][NextAllow]_vars

\* ------------------------------------------ challenge cookies presented
\* a cookie as login_phone sets it for the number
EncodedCookie(number, nonce_draw, salt_draw) ==
    challenge_phone_ctx(number, nonce_draw, salt_draw).val.value

\* cookies that do not decode: not base64, base64 of something that is not
\* the JSON of an Enc, an Enc that was tampered with, an Enc made under
\* another key
UndecodableCookies ==
    {<<"garbage", 0>>, b64_encode(<<"text", 0>>)}
        \cup {b64_encode(to_string(TamperedEnc(encrypt(n, 1, 1).val, t))) :
                 n \in Numbers, t \in EncTampers}
        \cup {b64_encode(to_string(encrypt_with_key(n, 2, 1, 1).val)) : n \in Numbers}

\* cookies as login_ctx sets them to clear the challenge
ClearedCookies == {generate_clear_token(d) : d \in ClearDraws}

\* SpecCookie: login_phone and login_phone_confirm on one slot, the
\* confirmation sent with every kind of challenge cookie, or with a number
\* and no cookie
NextCookie ==
    \/ RoomForCode(MaxCodes) /\ \E n \in Numbers : LoginPhone(1, n)
    \/ /\ RoomForToken
       /\ \E n \in Numbers \cup {NULL}, c \in SixDigitCodes :
            \/ \E m \in Numbers, nd \in NonceDraws, sd \in SaltDraws :
                  LoginPhoneConfirmCookie(1, n, EncodedCookie(m, nd, sd), c)
            \/ \E cookie \in UndecodableCookies :
                  LoginPhoneConfirmCookie(1, n, cookie, c)
            \/ \E cookie \in ClearedCookies :
                  LoginPhoneConfirmCookie(1, n, cookie, c)
            \/ n # NULL /\ LoginPhoneConfirmCookie(1, n, NoCookie, c)
    \/ SendSteps(1, {1})
    \/ VSelect(1)
    \/ VDelCode(1)
    \/ VVerify(1)
    \/ VCommit(1)
    \/ LoginCtx(1)

SpecCookie == Init /\ [][NextCookie]_vars

\* SpecConfirm: login_phone and login_phone_confirm on one slot, every
\* confirmation sent either with a number and the challenge cookie of another
\* number that has an account, or with no number and no cookie that decodes
NextConfirm ==
    \/ RoomForCode(MaxCodes) /\ \E n \in Numbers : LoginPhone(1, n)
    \/ /\ RoomForToken
       /\ \E n \in Numbers, m \in Numbers, nd \in NonceDraws, sd \in SaltDraws,
             c \in SixDigitCodes :
            /\ m # n
            /\ UsersByNumber(m) # {}
            /\ LoginPhoneConfirmCookie(1, n, EncodedCookie(m, nd, sd), c)
    \/ /\ RoomForToken
       /\ \E cookie \in UndecodableCookies \cup ClearedCookies \cup {NoCookie},
             c \in SixDigitCodes :
            LoginPhoneConfirmCookie(1, NULL, cookie, c)
    \/ SendSteps(1, {1})
    \/ VSelect(1)
    \/ VDelCode(1)
    \/ VVerify(1)
    \/ VCommit(1)
    \/ LoginCtx(1)

SpecConfirm == Init /\ [][NextConfirm]_vars

\* ------------------------------------------------ calls into crypto.rs
\* encrypt_with_key(str, key)
Encrypt(str, key, nonce_draw, salt_draw) ==
    /\ Len(envelopes) < MaxEnvelopes
    /\ LET r == encrypt_with_key(str, key, nonce_draw, salt_draw)
       IN  /\ envelopes' = IF r.ok THEN Append(envelopes, r.val) ELSE envelopes
           /\ call' = [op |-> "encrypt", s0 |-> str, key0 |-> key, s |-> str, key |-> key,
                       enc |-> IF r.ok THEN Len(envelopes) + 1 ELSE 0,
                       tamper |-> NoTamper, res |-> r]
    /\ UNCHANGED <<db, now, req, response, gateway>>

\* the plaintext and the key an Enc was made from
PlainOf(enc) == enc.value[2].sealed.plain.str
KeyOf(enc) == enc.value[2].sealed.key[2]

\* decrypt_with_key(enc, key) of an Enc returned earlier, as it is or
\* tampered with
Decrypt(i, t, key) ==
    /\ i \in 1..Len(envelopes)
    /\ call' = [op |-> "decrypt", s0 |-> PlainOf(envelopes[i]), key0 |-> KeyOf(envelopes[i]),
                s |-> NULL, key |-> key, enc |-> i, tamper |-> t,
                res |-> decrypt_with_key(TamperedEnc(envelopes[i], t), key)]
    /\ UNCHANGED <<db, now, req, response, envelopes, gateway>>

\* hmac_verify_with_key(text, sig, key) of a signature made by
\* hmac_sign_with_key(str, key0), as it is or tampered with
Verify(str, key0, t, text, key) ==
    /\ call' = [op |-> "hmac_verify", s0 |-> str, key0 |-> key0, s |-> text, key |-> key,
                enc |-> 0, tamper |-> t,
                res |-> Success(hmac_verify_with_key(
                            text, TamperedTag(hmac_sign_with_key(str, key0), t), key))]
    /\ UNCHANGED <<db, now, req, response, envelopes, gateway>>

\* SpecCrypto: encrypt and decrypt over all keys, texts, outcomes of the
\* random source and tamperings
NextCrypto ==
    \/ \E str \in Plaintexts, key \in Keys,
          nd \in NonceDraws \cup {RngDown}, sd \in SaltDraws \cup {RngDown} :
            Encrypt(str, key, nd, sd)
    \/ \E i \in 1..MaxEnvelopes, t \in EncTampers \cup {NoTamper}, key \in Keys :
            Decrypt(i, t, key)

SpecCrypto == Init /\ [][NextCrypto]_vars

\* SpecHmac: signatures made and verified over all messages, keys and
\* tamperings
NextHmac ==
    \E str \in Messages, key0 \in Keys, t \in TagTampers \cup {NoTamper},
       text \in Messages, key \in Keys :
         Verify(str, key0, t, text, key)

SpecHmac == Init /\ [][NextHmac]_vars

\* --------------------------------------------------------- properties
VerifyOps == {"verify_number", "login_phone_confirm", "delete_account"}

\* this step is p's select of the latest code and the checks on it
VSelects(p) == req[p].pc = "v_select" /\ req'[p] # req[p]

\* this step is p's commit of a successful VerifyCode
VerifyCommits(p) ==
    req[p].pc = "v_commit" /\ UserLive(req[p].user.id) /\ req'[p].pc # "v_commit"

\* this step is p's rate-limit check
SendChecks(p) == req[p].pc = "send_check" /\ req'[p] # req[p]

\* this step answers p with the error e
Answers(p, e) == response'.proc = p /\ ~response'.res.ok /\ response'.res.err = e

\* the code row r stores the hash of this code under its salt
StoresCode(r, code) ==
    codes[r].hash = hex_encode(derive_password_hash(code, hex_decode(codes[r].salt)))

\* C1: of two VerifyCode operations running concurrently for one user with
\* the correct code against the same live row, exactly one succeeds and the
\* other fails with InvalidCode: no VerifyCode commits on a code row that
\* another VerifyCode has already consumed
C1_ExactlyOneSucceeds ==
    [][\A p \in Procs : VerifyCommits(p) => ~codes[req[p].latest].deleted]_vars

\* C7: VerifyCode is atomic. A step soft-deletes a code row only together
\* with setting the verified timestamp of that row's user, a step sets a
\* verified timestamp only together with the soft-deletion of a code row of
\* that user, a VerifyCode that ends in an error changes neither, and after
\* a unique-verified-phone violation the selected row is non-deleted and
\* the phone unverified
C7_Atomic ==
    [][/\ \A r \in CodeIds :
            (~codes[r].deleted /\ codes'[r].deleted)
                => phones'[codes[r].user_id].verified = now
       /\ \A u \in UserIds :
            phones'[u].verified # phones[u].verified
                => \E r \in CodeIds :
                     codes[r].user_id = u /\ codes'[r].deleted /\ codes'[r].created <= now
       /\ (response'.op \in VerifyOps /\ ~response'.res.ok)
                => (codes' = codes /\ phones' = phones)
       /\ (response'.op \in VerifyOps /\ response'.res.err = DBUniqueContraintViolation)
                => /\ ~codes'[response'.row].deleted
                   /\ phones'[response'.user].verified = NULL]_vars

\* a VerifyCode has failed on the unique index, its code row still live and
\* its phone still unverified
C7_Witness ==
    /\ response.op \in VerifyOps
    /\ response.res.err = DBUniqueContraintViolation
    /\ ~codes[response.row].deleted
    /\ phones[response.user].verified = NULL

\* users u and v hold live verified phones of the same number
SharesVerifiedNumber(u, v) ==
    /\ u # v
    /\ phones[u].number = phones[v].number
    /\ ~phones[u].deleted /\ ~phones[v].deleted
    /\ phones[u].verified # NULL /\ phones[v].verified # NULL

\* C8: no two non-deleted phones of different users carry the same number
\* with a verified timestamp set, and no VerifyCode reaches its commit for
\* a phone whose number another user's live phone holds verified
C8_UniqueVerifiedNumber ==
    /\ \A u, v \in UserIds : ~SharesVerifiedNumber(u, v)
    /\ \A p \in Procs :
         (req[p].pc = "v_commit" /\ ~phones[req[p].user.id].deleted)
            => \A v \in UserIds \ {req[p].user.id} :
                 ~(/\ phones[v].number = phones[req[p].user.id].number
                   /\ ~phones[v].deleted
                   /\ phones[v].verified # NULL)

\* a VerifyCode for a second user of a number already verified has been
\* answered with the unique constraint violation
C8_Witness ==
    /\ response.op \in VerifyOps
    /\ response.res.err = DBUniqueContraintViolation
    /\ \E v \in UserIds \ {response.user} :
         /\ phones[v].number = phones[response.user].number
         /\ phones[v].verified # NULL
         /\ ~phones[v].deleted

\* C2: a verification code is single-use. A VerifyCode never selects a row
\* that a successful VerifyCode has consumed, and a VerifyCode for a user
\* whose rows are all consumed fails with InvalidCode
C2_SingleUse ==
    [][\A p \in Procs : VSelects(p) =>
          /\ req'[p].pc = "v_delcode" => ~codes[req'[p].latest].deleted
          /\ (/\ \E r \in CodeIds : codes[r].user_id = req[p].user.id
              /\ \A r \in CodeIds : codes[r].user_id = req[p].user.id => codes[r].deleted)
                => Answers(p, InvalidVerificationCode("invalid code"))]_vars

\* the code of a consumed, unexpired row of a verified user has been
\* submitted again and answered with InvalidCode
C2_Witness ==
    /\ response.op \in VerifyOps
    /\ ~response.res.ok
    /\ response.res.err = InvalidVerificationCode("invalid code")
    /\ phones[response.user].verified # NULL
    /\ \E r \in CodeIds :
         /\ codes[r].user_id = response.user
         /\ codes[r].deleted
         /\ StoresCode(r, response.code)
         /\ codes[r].created >= now - CHALLENGE_PHONE_EXPIRATION_SECONDS

\* C3: only the most recently created code row of a user can be used to
\* verify: a VerifyCode that passes its checks has selected the newest of
\* all the user's rows, consumed ones included
C3_OnlyNewest ==
    \A p \in Procs :
        req[p].pc \in {"v_delcode", "v_verify", "v_commit"}
            => \A o \in CodeIds :
                 codes[o].user_id = req[p].user.id
                    => codes[o].created <= codes[req[p].latest].created

\* C4: the correct code of the latest live row, created at T, passes the
\* checks of a VerifyCode run at T + W - 1 and fails with InvalidCode at
\* T + W + 1 (W: challenge_phone_expiration_seconds)
C4_ExpiryWindow ==
    [][\A p \in Procs : VSelects(p) =>
          \A r \in CodeIds :
            (/\ codes[r].user_id = req[p].user.id
             /\ ~codes[r].deleted
             /\ \A o \in CodeIds :
                  (codes[o].user_id = req[p].user.id /\ ~codes[o].deleted)
                      => codes[o].created <= codes[r].created
             /\ StoresCode(r, req[p].code))
            => /\ now = codes[r].created + CHALLENGE_PHONE_EXPIRATION_SECONDS - 1
                    => req'[p].pc = "v_delcode" /\ req'[p].latest = r
               /\ now = codes[r].created + CHALLENGE_PHONE_EXPIRATION_SECONDS + 1
                    => Answers(p, InvalidVerificationCode("invalid code"))]_vars

\* the only code of a user, created at T, has been consumed by a VerifyCode
\* at T + W - 1
C4_Witness ==
    \E r \in CodeIds :
        /\ codes[r].deleted
        /\ \A o \in CodeIds : codes[o].user_id = codes[r].user_id => o = r
        /\ phones[codes[r].user_id].verified
              = codes[r].created + CHALLENGE_PHONE_EXPIRATION_SECONDS - 1

\* the three causes of InvalidCode, on the stored rows
NoLiveCode(u) == \A r \in CodeIds : codes[r].user_id = u => codes[r].deleted

LatestLive(u, r) ==
    /\ codes[r].user_id = u
    /\ ~codes[r].deleted
    /\ \A o \in CodeIds :
         (codes[o].user_id = u /\ ~codes[o].deleted) => codes[o].created <= codes[r].created

TooOld(r) == now - codes[r].created > CHALLENGE_PHONE_EXPIRATION_SECONDS

\* C5: VerifyCode fails with the one InvalidCode error (same variant, same
\* message) when the user has no non-deleted row, when the latest row is
\* older than the expiry window, or when the submitted code does not hash
\* to the stored hash, and passes its checks only when none of these holds
C5_UniformInvalidCode ==
    [][\A p \in Procs : VSelects(p) =>
          IF \/ NoLiveCode(req[p].user.id)
             \/ \E r \in CodeIds :
                  /\ LatestLive(req[p].user.id, r)
                  /\ TooOld(r) \/ ~StoresCode(r, req[p].code)
          THEN Answers(p, InvalidVerificationCode("invalid code"))
          ELSE req'[p].pc = "v_delcode"]_vars

\* a wrong code against a live, unexpired row has been answered with
\* InvalidCode
C5_Witness ==
    /\ response.op \in VerifyOps
    /\ ~response.res.ok
    /\ response.res.err = InvalidVerificationCode("invalid code")
    /\ \E r \in CodeIds :
         /\ LatestLive(response.user, r)
         /\ ~TooOld(r)
         /\ ~StoresCode(r, response.code)

\* C6: every InvalidCode failure of the login confirmation flow carries the
\* one message of a wrong, expired or absent code, whether or not the
\* phone number has an account
C6_UniformMessage ==
    (response.op = "login_phone_confirm" /\ response.res.payload.key = "INVALID_CODE")
        => response.res.payload.error = "invalid code"

\* the stored facts the rate limit speaks of: a code was requested for u
\* within the resend interval; the rows created for u in the trailing window
RequestedLately(u) ==
    \/ phones[u].verification_sent # NULL /\ now - phones[u].verification_sent < RESEND_SECONDS
    \/ \E r \in CodeIds : codes[r].user_id = u /\ now - codes[r].created < RESEND_SECONDS

RowsInWindow(u) ==
    Cardinality({r \in CodeIds : codes[r].user_id = u /\ now - codes[r].created < WINDOW_SECONDS})

\* the last request for u is at least the resend interval back
Spaced(u) ==
    /\ phones[u].verification_sent # NULL
    /\ now - phones[u].verification_sent >= RESEND_SECONDS

\* p's RequestCode overlaps no other request for its user: its User
\* projection is the stored one and no other request for the user is in flight
NoOverlap(p) ==
    /\ req[p].user = Projection(req[p].user.id)
    /\ \A q \in Procs \ {p} : Free(q) \/ req[q].user.id # req[p].user.id

\* C9 as stated: a RequestCode is rejected as RateLimited exactly when a
\* code was requested for the user within the last 5 seconds or more than 5
\* code rows were created for the user in the trailing 60 seconds
C9_RejectedExactlyWhen ==
    [][\A p \in Procs : SendChecks(p) =>
          IF RequestedLately(req[p].user.id) \/ RowsInWindow(req[p].user.id) > 5
          THEN Answers(p, BadRequest("too many authorization attempts"))
          ELSE req'[p].pc = "send_insert"]_vars

\* C9: a RequestCode that overlaps no other request for its user is
\* rejected as RateLimited exactly when a code was requested for the user
\* within the last 5 seconds or more than 5 code rows were created for the
\* user in the trailing 60 seconds
C9_RejectedExactlyWhenAlone ==
    [][\A p \in Procs : (SendChecks(p) /\ NoOverlap(p)) =>
          IF RequestedLately(req[p].user.id) \/ RowsInWindow(req[p].user.id) > 5
          THEN Answers(p, BadRequest("too many authorization attempts"))
          ELSE req'[p].pc = "send_insert"]_vars

\* a RequestCode alone on its user, five seconds after the last, with six
\* rows in the window, has been rejected
C9_Witness ==
    /\ response.op = "login_phone"
    /\ response.res.err = BadRequest("too many authorization attempts")
    /\ \A q \in Procs : Free(q)
    /\ ~RequestedLately(response.user)
    /\ RowsInWindow(response.user) > 5

\* C10 as stated: of RequestCodes each at least 5 seconds after the one
\* before, the 6th within 60 seconds (5 rows in the window) is rejected
C10_SixthRejected ==
    [][\A p \in Procs : (SendChecks(p) /\ Spaced(req[p].user.id)) =>
          IF RowsInWindow(req[p].user.id) >= 5
          THEN Answers(p, BadRequest("too many authorization attempts"))
          ELSE req'[p].pc = "send_insert"]_vars

\* C10: of RequestCodes each at least 5 seconds after the one before, the
\* 6th within 60 seconds is accepted and the 7th (6 rows in the window) is
\* rejected as RateLimited; once the window has passed over enough rows to
\* leave at most 5, the next is accepted
C10_SeventhRejected ==
    [][\A p \in Procs : (SendChecks(p) /\ Spaced(req[p].user.id)) =>
          IF RowsInWindow(req[p].user.id) >= 6
          THEN Answers(p, BadRequest("too many authorization attempts"))
          ELSE req'[p].pc = "send_insert"]_vars

\* six RequestCodes five seconds apart were accepted within 60 seconds and
\* the 7th, five seconds after the 6th, has been rejected
C10_Witness ==
    /\ response.op = "login_phone"
    /\ response.res.err = BadRequest("too many authorization attempts")
    /\ Spaced(response.user)
    /\ RowsInWindow(response.user) = 6
    /\ \A r \in CodeIds : r > 1 => codes[r].created - codes[r - 1].created = RESEND_SECONDS

\* this step is p's update of the phone and its SMS request
SendUpdates(p) == req[p].pc = "send_update" /\ req'[p] # req[p]

\* C11: when the SMS request fails after the code row has been stored, the
\* issue is not taken back: every code row stays as it is, the row of this
\* request among them non-deleted, and the phone carries verification_sent =
\* now and one more attempt
C11_IssuanceKept ==
    [][\A p \in Procs : (SendUpdates(p) /\ Answers(p, Reqwest)) =>
          /\ codes' = codes
          /\ \E r \in CodeIds :
               /\ codes'[r].user_id = req[p].user.id
               /\ ~codes'[r].deleted
               /\ codes'[r].created <= now
               /\ \A o \in CodeIds : codes[o].created <= codes[r].created
          /\ phones'[req[p].user.id].verification_sent = now
          /\ phones'[req[p].user.id].verification_attempts
                = phones[req[p].user.id].verification_attempts + 1]_vars

\* with every SMS request failing, a code has been verified: its row is
\* consumed, the phone verified and the login confirmed with a token
C11_Witness ==
    /\ response.op = "login_phone_confirm"
    /\ response.res.ok
    /\ response.token # NULL
    /\ phones[response.user].verified # NULL
    /\ phones[response.user].verification_attempts >= 1
    /\ \E r \in CodeIds : codes[r].user_id = response.user /\ codes[r].deleted

\* the operations that issue a verification code
RequestCodeOps == {"sign_up", "login_phone", "send_verification_code"}

\* C12: a RequestCode whose SMS request fails still reports success: no
\* sign_up, login_phone or send_verification_code is answered with the
\* error of the SMS request
C12_FireAndLog ==
    response.op \in RequestCodeOps => (response.res.ok \/ response.res.err # Reqwest)

\* this step is p's receipt of a request presenting the credential a
Presents(p, a) ==
    \/ Logout(p, a)
    \/ SendVerificationCode(p, a)
    \/ \E c \in SixDigitCodes : VerifyNumber(p, a, c) \/ DeleteAccount(p, a, c)

\* the user id the request of p carries after this step
Carried(p) == IF response'.proc = p THEN response'.user ELSE req'[p].user.id

\* a token row with the keyed hash of the credential a, not deleted, expiring
\* later than now, owned by the non-deleted user u
Resolves(a, u) ==
    \E t \in TokenIds :
        /\ tokens[t].hash = hmac_sign(a)
        /\ ~tokens[t].deleted
        /\ tokens[t].expires > now
        /\ tokens[t].user_id = u
        /\ ~users[u].deleted

LoginCtxs(p) == req[p].pc = "login_ctx" /\ req'[p] # req[p]

\* C14: issuing a token appends exactly one token row, with the user id, the
\* keyed hash of the clear token and expires = now + auth_expiration_seconds,
\* and returns the clear token (also in the auth cookie); no stored row holds
\* the clear token itself and nothing else is written
C14_IssueToken ==
    [][\A p \in Procs : LoginCtxs(p) =>
          /\ Len(tokens') = Len(tokens) + 1
          /\ \A t \in TokenIds : tokens'[t] = tokens[t]
          /\ tokens'[Len(tokens')] =
                [user_id |-> req[p].user.id, hash |-> <<"hmac", response'.token>>,
                 expires |-> now + AUTH_EXPIRATION_SECONDS, deleted |-> FALSE]
          /\ response'.proc = p /\ response'.res.ok /\ response'.token # NULL
          /\ response'.cookies[1].name = "auth_cookie"
          /\ response'.cookies[1].value = response'.token
          /\ \A t \in 1..Len(tokens') :
                /\ tokens'[t].hash[1] = "hmac"
                /\ tokens'[t].hash # <<"clear", response'.token>>
          /\ UNCHANGED <<users, phones, codes>>]_vars

\* a second token has been issued, some time after the first: its row holds
\* the keyed hash of the token just returned and expires
\* auth_expiration_seconds from now
C14_Witness ==
    /\ response.res.ok
    /\ response.token # NULL
    /\ Len(tokens) = 2
    /\ now > 0
    /\ tokens[2].hash = <<"hmac", response.token>>
    /\ tokens[2].expires = now + AUTH_EXPIRATION_SECONDS
    /\ tokens[1].expires = AUTH_EXPIRATION_SECONDS

\* C15: logout revokes nothing: it leaves every token row (and every other
\* row) unchanged, so the credential it was sent with resolves to the same
\* user after the logout as before
C15_LogoutRevokesNothing ==
    [][\A p \in Procs, a \in Credentials : Logout(p, a) =>
          /\ tokens' = tokens
          /\ UNCHANGED <<users, phones, codes>>
          /\ \A u \in UserIds : Resolves(a, u) => Resolves(a, u)']_vars

\* a logout has been answered for a user whose token row is still there,
\* not deleted and not expired
C15_Witness ==
    /\ response.op = "logout"
    /\ response.res.ok
    /\ response.user # 0
    /\ \E t \in TokenIds :
         /\ tokens[t].user_id = response.user
         /\ ~tokens[t].deleted
         /\ tokens[t].expires > now
         /\ ~users[response.user].deleted

\* C16: the answer to a logout sets the auth cookie to a cleared token (a
\* value under the reserved prefix "xxxx", which no issued session token
\* carries) with Max-Age zero
C16_ClearingCookie ==
    response.op = "logout" =>
        /\ Len(response.cookies) = 1
        /\ response.cookies[1].name = "auth_cookie"
        /\ response.cookies[1].value[1] = "xxxx"
        /\ response.cookies[1].max_age = 0

\* C17: issuing a token leaves every earlier token row, of this user and of
\* every other, unchanged, and every credential that resolved before the
\* step resolves to the same user after it; receiving a request with a
\* credential (the session lookup) changes no stored row
C17_SessionsUndisturbed ==
    [][/\ \A p \in Procs : LoginCtxs(p) =>
             /\ \A t \in TokenIds : tokens'[t] = tokens[t]
             /\ \A a \in Credentials, u \in UserIds : Resolves(a, u) => Resolves(a, u)'
       /\ \A p \in Procs, a \in Credentials : Presents(p, a) =>
             UNCHANGED <<users, phones, codes, tokens>>]_vars

\* a user holds two sessions: the token just issued and an earlier one,
\* both rows live and unexpired
C17_Witness ==
    /\ response.token = 2
    /\ Len(tokens) = 2
    /\ tokens[1].user_id = tokens[2].user_id
    /\ \A t \in TokenIds :
         /\ ~tokens[t].deleted
         /\ tokens[t].expires > now
         /\ ~users[tokens[t].user_id].deleted

\* the credential a resolves to a user whose phone has a verified timestamp
ResolvesVerified(a) ==
    \E u \in UserIds : Resolves(a, u) /\ phones[u].verified # NULL

\* the request of p is rejected by this step with the error e under the key k
RejectedWith(p, e, k) == Answers(p, e) /\ response'.res.payload.key = k

\* C18: delete_account, which requires identity, is rejected with
\* Unauthorized when the credential resolves to no user and with Unverified
\* when it resolves to a user whose phone has no verified timestamp, and goes
\* on otherwise; send_verification_code and verify_number are rejected, with
\* Unauthorized, only when the credential resolves to no user
C18_GuardRejections ==
    [][\A p \in Procs, a \in Credentials :
          LET valid == \E u \in UserIds : Resolves(a, u) IN
          /\ (\E c \in SixDigitCodes : DeleteAccount(p, a, c)) =>
                /\ ~valid => RejectedWith(p, Unauthorized("Unauthorized"), "UNAUTHORIZED")
                /\ (valid /\ ~ResolvesVerified(a)) =>
                      RejectedWith(p, Unverified("Unverified"), "UNVERIFIED")
                /\ ResolvesVerified(a) => (response' = NoResponse /\ req'[p].pc = "v_select")
          /\ (SendVerificationCode(p, a) \/ \E c \in SixDigitCodes : VerifyNumber(p, a, c)) =>
                /\ ~valid => RejectedWith(p, Unauthorized("Unauthorized"), "UNAUTHORIZED")
                /\ valid => (response' = NoResponse
                             /\ req'[p].pc \in {"send_check", "v_select"})]_vars

\* delete_account has been rejected with Unverified for a signed-up user
\* whose phone is not verified
C18_Witness ==
    /\ response.op = "delete_account"
    /\ ~response.res.ok
    /\ response.res.err = Unverified("Unverified")
    /\ response.res.payload.key = "UNVERIFIED"
    /\ response.user # 0
    /\ phones[response.user].verified = NULL

\* C19: a VerifyCode that fails (wrong code, expired code, no code) writes
\* nothing: every code row and every phone, its verified timestamp included,
\* is after the failing step what it was before, so the latest live row is
\* still the one to verify against and a new code may be requested
C19_FailureWritesNothing ==
    [][\A p \in Procs :
          (response'.proc = p /\ response'.op \in VerifyOps /\ ~response'.res.ok) =>
             /\ codes' = codes
             /\ phones' = phones
             /\ UNCHANGED <<users, tokens>>
             /\ \A u \in UserIds, r \in CodeIds :
                  (LatestLive(u, r) /\ ~TooOld(r)) => (LatestLive(u, r) /\ ~TooOld(r))']_vars

\* a wrong code has been rejected for a user who had requested a second
\* code: both rows are still live, the newer one unexpired, the phone
\* unverified
C19_Witness ==
    /\ response.op \in VerifyOps
    /\ ~response.res.ok
    /\ response.res.err = InvalidVerificationCode("invalid code")
    /\ response.user # 0
    /\ phones[response.user].verified = NULL
    /\ Len(codes) = 2
    /\ \A r \in CodeIds : codes[r].user_id = response.user /\ ~codes[r].deleted
    /\ \E r \in CodeIds : /\ LatestLive(response.user, r)
                          /\ ~TooOld(r)
                          /\ ~StoresCode(r, response.code)

\* C20: verified is terminal: a phone whose verified timestamp is set keeps
\* a verified timestamp through every step (a new code request, a failed or
\* repeated VerifyCode, a login, a session lookup, a logout, a deletion)
C20_VerifiedTerminal ==
    [][\A u \in UserIds : phones[u].verified # NULL => phones'[u].verified # NULL]_vars

\* a verified user has requested another code and been answered ok: the
\* phone counts the second attempt and is still verified
C20_Witness ==
    /\ response.op = "send_verification_code"
    /\ response.res.ok
    /\ response.user # 0
    /\ phones[response.user].verified # NULL
    /\ phones[response.user].verification_attempts >= 2
    /\ phones[response.user].verification_sent >= phones[response.user].verified

\* C21: for every plaintext s and key k, decrypting with k the Enc that
\* encrypting s with k returned gives exactly s: at the call of encrypt, and
\* at every later call of decrypt on the untouched Enc with the same key
C21_RoundTrip ==
    [][/\ \A str \in Plaintexts, key \in Keys :
             (call'.op = "encrypt" /\ call'.s = str /\ call'.key = key /\ call'.res.ok) =>
                decrypt_with_key(call'.res.val, key) = Success(str)
       /\ (call'.op = "decrypt" /\ call'.tamper = NoTamper /\ call'.key = call'.key0) =>
             call'.res = Success(call'.s0)]_vars

\* the second Enc, made from plaintext 2 under key 2, has been decrypted
\* with key 2 and gave plaintext 2
C21_Witness ==
    /\ call.op = "decrypt"
    /\ call.tamper = NoTamper
    /\ call.enc = 2
    /\ call.key0 = 2 /\ call.key = 2
    /\ call.s0 = 2
    /\ call.res.ok /\ call.res.val = 2

\* C22: decrypting, with the key it was made with, an Enc in which one bit
\* of the ciphertext, of the nonce or of the salt has been changed fails;
\* and a decrypt that succeeds, whatever was done to the Enc and whatever
\* the key, returns the plaintext that was encrypted
C22_TamperDetected ==
    /\ (call.op = "decrypt" /\ call.tamper \in BitFlips /\ call.key = call.key0)
          => ~call.res.ok
    /\ (call.op = "decrypt" /\ call.res.ok) => call.res.val = call.s0

\* an Enc with a bit of its salt flipped has been refused under its own key
C22_Witness ==
    /\ call.op = "decrypt"
    /\ call.tamper = [field |-> "salt", how |-> "flip", bit |-> 2]
    /\ call.key = call.key0
    /\ ~call.res.ok
    /\ call.res.err = "encryption error"

\* C23: every failure of decrypt gives its caller one and the same result,
\* whichever stage failed (decoding of nonce, salt or value, the length of
\* the nonce, the authentication tag): two failing calls in a row return
\* equal errors
C23_UniformFailure ==
    [][(/\ call.op = "decrypt" /\ ~call.res.ok
        /\ call'.op = "decrypt" /\ ~call'.res.ok) => call'.res = call.res]_vars

\* C24: hmac_verify_with_key(m, t, k) is true when t is the signature of m
\* under k, and false when the message, the signature text or the key is
\* another than the signed one; a signature that is not hex gives false,
\* never an error
C24_VerifyExactly ==
    call.op = "hmac_verify" =>
        /\ call.res.ok
        /\ call.res.val = (call.tamper = NoTamper /\ call.s = call.s0 /\ call.key = call.key0)

\* C25 (as stated): over any sequence of encrypt calls under the same key no
\* two Enc values carry the same nonce
C25_NoNonceTwice ==
    \A i, j \in 1..Len(envelopes) :
        (i < j /\ KeyOf(envelopes[i]) = KeyOf(envelopes[j]))
            => envelopes[i].nonce # envelopes[j].nonce

\* C25: every encrypt call draws its nonce (12 bytes) and its salt (128
\* bytes) from the random source inside the call: the Enc it returns carries
\* exactly the two draws of this call, whatever the plaintext, the key and
\* the Enc values returned before, and returns none when a draw fails
C25_FreshDraws ==
    [][\A str \in Plaintexts, key \in Keys,
          nd \in NonceDraws \cup {RngDown}, sd \in SaltDraws \cup {RngDown} :
          Encrypt(str, key, nd, sd) =>
             IF nd = RngDown \/ sd = RngDown
             THEN ~call'.res.ok /\ envelopes' = envelopes
             ELSE /\ call'.res.ok
                  /\ call'.res.val.nonce = b64_encode([len |-> 12, id |-> nd, flip |-> 0])
                  /\ call'.res.val.salt = b64_encode([len |-> 128, id |-> sd, flip |-> 0])
                  /\ envelopes' = Append(envelopes, call'.res.val)]_vars

\* two Enc values made under one key carry different nonces, the second
\* just returned
C25_Witness ==
    /\ call.op = "encrypt"
    /\ call.res.ok
    /\ call.enc = 2
    /\ KeyOf(envelopes[1]) = KeyOf(envelopes[2])
    /\ envelopes[1].nonce # envelopes[2].nonce
    /\ envelopes[2].nonce[2].len = 12
    /\ envelopes[2].salt[2].len = 128

\* C26: when the random source is unavailable no operation goes on with
\* zero-filled bytes in place of random ones: no answer to a logout (or to
\* the logout that ends delete_account) carries a cleared token made of
\* zero bytes
C26_NoZeroFilledToken ==
    (response.op \in {"logout", "delete_account"} /\ Len(response.cookies) = 1) =>
        hex_decode(response.cookies[1].value[2]) # [len |-> 31, id |-> 0, flip |-> 0]

\* C27: decoding the challenge cookie that encoding a phone number produced
\* returns exactly that number: the cookie login_phone sets decodes to the
\* number of the login, and a login_phone_confirm sent without a number but
\* with the cookie made for number m goes on with m (to the user of m, or
\* to "invalid phone number" when m has none)
C27_CookieRoundTrip ==
    [][/\ (response'.op = "login_phone" /\ response'.res.ok) =>
             /\ Len(response'.cookies) = 1
             /\ response'.cookies[1].name = "challenge_phone_cookie"
             /\ ChallengePhone(response'.cookies[1].value) = phones'[response'.user].number
       /\ \A m \in Numbers, nd \in NonceDraws, sd \in SaltDraws, c \in SixDigitCodes :
             LoginPhoneConfirmCookie(1, NULL, EncodedCookie(m, nd, sd), c) =>
                IF \E u \in UserIds : phones[u].number = m /\ ~phones[u].deleted /\ ~users[u].deleted
                THEN req'[1].pc = "v_select" /\ req'[1].user.phone_number = m
                ELSE Answers(1, InvalidVerificationCode("invalid phone number"))]_vars

\* login_phone for number 2 has set a challenge cookie that decodes to 2
C27_Witness ==
    /\ response.op = "login_phone"
    /\ response.res.ok
    /\ phones[response.user].number = 2
    /\ Len(response.cookies) = 1
    /\ ChallengePhone(response.cookies[1].value) = 2

\* C28: a challenge cookie that fails to decode at any stage (base64, JSON,
\* decryption) and a cookie with the cleared prefix give no pending phone
\* number and do not fail the request: login_phone_confirm runs as it does
\* without a cookie, with the number it was given, or to its own "missing
\* phone number" error when it was given none
C28_DecodeNeverFails ==
    [][\A cookie \in UndecodableCookies \cup ClearedCookies,
          n \in Numbers \cup {NULL}, c \in SixDigitCodes :
          LoginPhoneConfirmCookie(1, n, cookie, c) =>
             /\ ChallengePhone(cookie) = NULL
             /\ IF n = NULL
                THEN /\ Answers(1, E("no phone number provided or found while verifying code"))
                     /\ response'.res.payload.key = "MISSING_PHONE_NUMBER"
                ELSE IF \E u \in UserIds :
                          phones[u].number = n /\ ~phones[u].deleted /\ ~users[u].deleted
                THEN req'[1].pc = "v_select" /\ req'[1].user.phone_number = n
                ELSE Answers(1, InvalidVerificationCode("invalid phone number"))]_vars

\* after a login_phone, a login_phone_confirm sent without a number and with
\* a cookie that gave no pending number (every such request of SpecCookie
\* carries a cookie) has been answered by the handler itself
C28_Witness ==
    /\ response.op = "login_phone_confirm"
    /\ ~response.res.ok
    /\ response.res.err = E("no phone number provided or found while verifying code")
    /\ response.res.payload.key = "MISSING_PHONE_NUMBER"
    /\ Len(users) >= 1

\* the failure texts of the steps inside the server: the random source, the
\* encryption of the challenge cookie
InternalFailureTexts ==
    {"Error getting random bytes", "error generating nonce",
     "error generating salt", "encryption error"}

\* C29: the payload of an error returned to a client holds no internal
\* failure text, neither as its message nor in its extensions
C29_NoInternalText ==
    ~response.res.ok =>
        /\ response.res.payload.error \notin InternalFailureTexts
        /\ response.res.payload.message \notin InternalFailureTexts

\* C30: send_verification_code past the insert of its code row ends with the
\* row and the update of the phone both applied, or with neither
C30_IssueAtomic ==
    [][SendUpdates(1) =>
          LET u == req[1].user.id
          IN  \/ /\ codes' = codes
                 /\ phones'[u].verification_sent = now
                 /\ phones'[u].verification_attempts = phones[u].verification_attempts + 1
              \/ /\ codes' = SubSeq(codes, 1, Len(codes) - 1)
                 /\ phones' = phones]_vars

\* a step of p that ends the insert of send_verification_code
SendInserts(p) == req[p].pc = "send_insert" /\ req'[p] # req[p]

\* C31: a RequestCode that passed the rate limit inserts exactly one code
\* row, of its user and created now, and leaves every earlier row of every
\* user as it was; its update of the phone sets verification_sent to now,
\* adds one to verification_attempts and changes nothing else
C31_IssueFrame ==
    [][\A p \in Procs :
          /\ SendInserts(p) =>
                /\ Len(codes') = Len(codes) + 1
                /\ \A r \in CodeIds : codes'[r] = codes[r]
                /\ codes'[Len(codes) + 1].user_id = req[p].user.id
                /\ codes'[Len(codes) + 1].created = now
                /\ ~codes'[Len(codes) + 1].deleted
                /\ <<users, phones, tokens>>' = <<users, phones, tokens>>
          /\ SendUpdates(p) =>
                /\ phones'[req[p].user.id] =
                      [phones[req[p].user.id] EXCEPT
                          !.verification_sent = now,
                          !.verification_attempts = phones[req[p].user.id].verification_attempts + 1]
                /\ \A v \in UserIds \ {req[p].user.id} : phones'[v] = phones[v]
                /\ <<users, codes, tokens>>' = <<users, codes, tokens>>]_vars

\* two code rows of one user, the earlier still live after the later was
\* inserted, and a login_phone answered with success
C31_Witness ==
    /\ \E r1, r2 \in CodeIds :
          /\ r1 < r2
          /\ codes[r1].user_id = codes[r2].user_id
          /\ ~codes[r1].deleted
    /\ response.op = "login_phone"
    /\ response.res.ok
    /\ phones[response.user].verification_attempts >= 1

\* C32: with an allow-list configured and the number of the user not in it,
\* send_verification_code makes no request to the SMS gateway, keeps the code
\* row it stored and reports success; with no allow-list, or the number in
\* it, it makes exactly one request; no other step makes one
C32_AllowList ==
    [][/\ SendUpdates(1) =>
             /\ codes' = codes
             /\ codes[Len(codes)].user_id = req[1].user.id
             /\ ~codes[Len(codes)].deleted
             /\ IF /\ allowed_phone_numbers.some
                   /\ req[1].user.phone_number \notin allowed_phone_numbers.list
                THEN /\ sms_calls' = sms_calls
                     /\ IF req[1].op = "sign_up"
                        THEN req'[1].pc = "login_ctx"
                        ELSE response'.proc = 1 /\ response'.res.ok
                ELSE sms_calls' = sms_calls + 1
       /\ ~SendUpdates(1) => sms_calls' = sms_calls]_vars

\* login_phone answered with success for a number outside the configured
\* allow-list: its code stored, no request made to the gateway
C32_Witness ==
    /\ allowed_phone_numbers.some
    /\ response.op = "login_phone"
    /\ response.res.ok
    /\ phones[response.user].number \notin allowed_phone_numbers.list
    /\ \E r \in CodeIds : codes[r].user_id = response.user
    /\ sms_calls = 0

\* C33: login_phone_confirm takes the number given in the request before
\* the number of the challenge cookie; given no number and no cookie that
\* decodes it fails at once: no code row is read or consumed, no token row
\* is inserted, nothing is written
C33_ExplicitFirst ==
    [][/\ \A n \in Numbers, m \in Numbers, nd \in NonceDraws, sd \in SaltDraws,
             c \in SixDigitCodes :
             (m # n /\ UsersByNumber(m) # {} /\ LoginPhoneConfirmCookie(1, n, EncodedCookie(m, nd, sd), c)) =>
                 IF \E u \in UserIds :
                       phones[u].number = n /\ ~phones[u].deleted /\ ~users[u].deleted
                 THEN /\ req'[1].pc = "v_select"
                      /\ req'[1].user.phone_number = n
                      /\ phones[req'[1].user.id].number = n
                 ELSE Answers(1, InvalidVerificationCode("invalid phone number"))
       /\ \A cookie \in UndecodableCookies \cup ClearedCookies \cup {NoCookie},
             c \in SixDigitCodes :
             LoginPhoneConfirmCookie(1, NULL, cookie, c) =>
                 /\ Answers(1, E("no phone number provided or found while verifying code"))
                 /\ response'.token = NULL
                 /\ req'[1] = Idle
                 /\ <<users, phones, codes, tokens>>' = <<users, phones, codes, tokens>>]_vars

\* a confirmation goes on with number 2, the number given, while number 1,
\* the number of the cookie every such request of SpecConfirm carries, has an
\* account of its own
C33_Witness ==
    /\ req[1].op = "login_phone_confirm"
    /\ req[1].pc = "v_select"
    /\ req[1].user.phone_number = 2
    /\ \E u \in UserIds : phones[u].number = 1 /\ u # req[1].user.id

\* C34: a token row is added only by login_ctx, for the user of a sign_up
\* or of a login_phone_confirm; sign_up reaches login_ctx from its own
\* send_verification_code and carries the user its first step inserted;
\* login_phone_confirm reaches it only by the commit that marks a code row of
\* that user deleted and the phone verified; a request in flight keeps its
\* operation and its user
C34_TokenOnlyAfterProof ==
    [][/\ tokens' # tokens =>
             \E p \in Procs :
                /\ LoginCtxs(p)
                /\ req[p].op \in {"sign_up", "login_phone_confirm"}
                /\ Len(tokens') = Len(tokens) + 1
                /\ \A t \in TokenIds : tokens'[t] = tokens[t]
                /\ tokens'[Len(tokens')].user_id = req[p].user.id
       /\ \A p \in Procs :
             /\ (req[p].pc # "login_ctx" /\ req'[p].pc = "login_ctx") =>
                   \/ req[p].op = "sign_up" /\ req[p].pc = "send_update"
                   \/ /\ req[p].op = "login_phone_confirm"
                      /\ req[p].pc = "v_commit"
                      /\ codes[req[p].latest].user_id = req[p].user.id
                      /\ codes'[req[p].latest].deleted
                      /\ phones'[req[p].user.id].verified = now
             /\ (req[p].pc = "idle" /\ req'[p].op = "sign_up") =>
                   /\ Len(users') = Len(users) + 1
                   /\ req'[p].user.id = Len(users')
                   /\ \A t \in TokenIds : tokens[t].user_id # req'[p].user.id
             /\ (req[p].pc # "idle" /\ req'[p].pc # "idle") =>
                   /\ req'[p].op = req[p].op
                   /\ req'[p].user.id = req[p].user.id]_vars

\* login_phone_confirm has returned a token for an account that existed
\* before it: a code row of the user is consumed, the phone is verified
C34_Witness ==
    /\ response.op = "login_phone_confirm"
    /\ response.res.ok
    /\ response.token # NULL
    /\ tokens[Len(tokens)].user_id = response.user
    /\ phones[response.user].verified # NULL
    /\ \E r \in CodeIds : codes[r].user_id = response.user /\ codes[r].deleted

\* a verification of a code of user u has been committed: it is the only
\* statement that marks a code row deleted
VerifiedOnce(u) == \E r \in CodeIds : codes[r].user_id = u /\ codes[r].deleted

\* C35: the verified timestamp of a phone is written only by the commit of a
\* successful verification of a code of its user (a new phone has none), so a
\* phone that has one belongs to a user with a consumed code row; LoginGuard
\* admits delete_account only for such a user and rejects as Unverified the
\* session of a user who has only signed up
C35_VerifiedOnlyByVerifyCode ==
    [][/\ \A u \in 1..Len(phones') :
             /\ u > Len(phones) => phones'[u].verified = NULL
             /\ (u <= Len(phones) /\ phones'[u].verified # phones[u].verified) =>
                   \E p \in Procs :
                      /\ req[p].pc = "v_commit"
                      /\ req[p].user.id = u
                      /\ codes[req[p].latest].user_id = u
                      /\ codes'[req[p].latest].deleted
                      /\ phones'[u].verified = now
             /\ phones'[u].verified # NULL => VerifiedOnce(u)'
       /\ \A p \in Procs, a \in Credentials, u \in UserIds :
             (Resolves(a, u) /\ \E c \in SixDigitCodes : DeleteAccount(p, a, c)) =>
                IF VerifiedOnce(u)
                THEN req'[p].pc = "v_select" /\ phones[u].verified # NULL
                ELSE /\ Answers(p, Unverified("Unverified"))
                     /\ <<users, phones, codes, tokens>>' = <<users, phones, codes, tokens>>]_vars

\* delete_account has passed LoginGuard: its user has a verified phone and a
\* consumed code row
C35_Witness ==
    /\ req[1].op = "delete_account"
    /\ req[1].pc = "v_select"
    /\ phones[req[1].user.id].verified # NULL
    /\ VerifiedOnce(req[1].user.id)

\* C36: a verification for a user reads only code rows of that user: it goes
\* on only with a live row the user owns whose hash matches the code given,
\* and fails when the user owns no live row, whatever rows other users have;
\* its steps change no code row and no phone of another user
C36_CodesPerUser ==
    [][\A p \in Procs :
          /\ (req[p].pc = "v_select" /\ req'[p].pc = "v_delcode") =>
                /\ codes[req'[p].latest].user_id = req[p].user.id
                /\ ~codes[req'[p].latest].deleted
                /\ hex_decode(codes[req'[p].latest].hash) =
                      derive_password_hash(req[p].code, hex_decode(codes[req'[p].latest].salt))
          /\ (/\ req[p].pc = "v_select" /\ req'[p] # req[p]
              /\ \A r \in CodeIds : codes[r].user_id = req[p].user.id => codes[r].deleted) =>
                Answers(p, InvalidVerificationCode("invalid code"))
          /\ (req[p].pc \in {"v_select", "v_delcode", "v_verify", "v_commit"}
                 /\ req'[p] # req[p]) =>
                /\ \A r \in CodeIds :
                      codes[r].user_id # req[p].user.id => codes'[r] = codes[r]
                /\ \A v \in UserIds \ {req[p].user.id} : phones'[v] = phones[v]
                /\ Len(codes') = Len(codes)]_vars

\* a verification has failed for a user who owns no live code row while a
\* live row of another user matches the code that was given
C36_Witness ==
    /\ response.op \in {"verify_number", "login_phone_confirm", "delete_account"}
    /\ ~response.res.ok
    /\ response.res.err = InvalidVerificationCode("invalid code")
    /\ response.user # 0
    /\ \A r \in CodeIds : codes[r].user_id = response.user => codes[r].deleted
    /\ \E r \in CodeIds :
          /\ codes[r].user_id # response.user
          /\ ~codes[r].deleted
          /\ HashMatches(r, response.code)

\* C37: a send_verification_code rejected by the rate limit writes nothing:
\* no code row is inserted, the phone keeps its verification_sent and its
\* attempts, no request is made to the SMS gateway, and the request ends
\* there; the receipt of a request for an account that was sent a code
\* before writes nothing either
C37_RejectedWritesNothing ==
    [][\A p \in Procs :
          /\ (SendChecks(p) /\ Answers(p, BadRequest("too many authorization attempts"))) =>
                /\ codes' = codes
                /\ phones' = phones
                /\ users' = users /\ tokens' = tokens
                /\ sms_calls' = sms_calls
                /\ req'[p] = Idle
          /\ (/\ req[p].pc = "idle" /\ req'[p].pc = "send_check"
              /\ req'[p].user.phone_verification_sent # NULL) =>
                /\ <<users, phones, codes, tokens>>' = <<users, phones, codes, tokens>>
                /\ sms_calls' = sms_calls]_vars

\* one code was sent, and the request that followed it within the resend
\* interval has been rejected: one code row, one attempt, one SMS request
C37_Witness ==
    /\ response.res.err = BadRequest("too many authorization attempts")
    /\ response.res.payload.key = "BAD_REQUEST"
    /\ phones[response.user].verification_sent > now - RESEND_SECONDS
    /\ phones[response.user].verification_attempts = 1
    /\ Len(codes) = 1
    /\ sms_calls = 1

\* C38: the user and the phone are soft-deleted only by delete_account, both
\* at once, in the step that follows the committed verification of a code of
\* that user; a delete_account answered with an error deletes neither; a
\* deleted user stays deleted with the phone, and a request presenting a
\* token issued for that user is anonymous from then on
C38_DeleteAccount ==
    [][/\ \A u \in UserIds :
             /\ (users'[u].deleted # users[u].deleted \/ phones'[u].deleted # phones[u].deleted) =>
                   /\ \E p \in Procs :
                         /\ req[p].op = "delete_account"
                         /\ req[p].pc = "d_delete"
                         /\ req[p].user.id = u
                         /\ response'.proc = p /\ response'.res.ok
                   /\ users'[u].deleted /\ phones'[u].deleted
             /\ users[u].deleted => (users'[u].deleted /\ phones[u].deleted)
             /\ users[u].deleted =>
                   \A p \in Procs, a \in TokenIds :
                      (tokens[a].user_id = u /\ Presents(p, a)) => Carried(p) = 0
       /\ \A p \in Procs :
             /\ (req[p].pc # "d_delete" /\ req'[p].pc = "d_delete") =>
                   /\ req[p].op = "delete_account"
                   /\ req[p].pc = "v_commit"
                   /\ codes[req[p].latest].user_id = req[p].user.id
                   /\ codes'[req[p].latest].deleted
             /\ (response'.proc = p /\ response'.op = "delete_account" /\ ~response'.res.ok) =>
                   users' = users /\ phones' = phones]_vars

\* delete_account has succeeded: the user and the phone are deleted while a
\* token row of the user is neither deleted nor expired
C38_Witness ==
    /\ response.op = "delete_account"
    /\ response.res.ok
    /\ users[response.user].deleted
    /\ phones[response.user].deleted
    /\ \E t \in TokenIds :
          /\ tokens[t].user_id = response.user
          /\ ~tokens[t].deleted
          /\ tokens[t].expires > now

====
